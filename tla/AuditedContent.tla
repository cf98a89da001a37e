--------------------------- MODULE AuditedContent ---------------------------
(* Changes of shared content and their audit: the durable intents of          *)
(* lib/audit-activity.ts and lib/audit.ts around the routes that change       *)
(* notes, tags, favourites and settings (routes/notes.ts, storage-tags.ts,    *)
(* storage-favorites.ts, settings.ts), around a request for several scans     *)
(* (routes/storage-capacity.ts), and around the routes that write an audit of *)
(* their own (routes/admin-users.ts, service-accounts.ts, lineage-curation).  *)
EXTENDS Naturals, Sequences, FiniteSets

CONSTANTS
    Requests,       \* mutating requests, one each
    Mutations,      \* what they may ask for
    TagIds,         \* tags that may exist
    NoText

\* A change asked for is a record that says what kind it is.
ASSUME AuditedAssumption ==
    NoText \notin Requests /\ \A op \in Mutations : "kind" \in DOMAIN op

VARIABLES
    content,        \* the shared tables
    notes,          \* notes_history by id: [body, at]
    noteLock,       \* the request in the transaction of the note, or NoText
    clock,          \* transactions begun on the note so far
    request,        \* Requests -> [pc, op, at, changed, committed, own, status]
    audit,          \* Requests -> its intent: none, pending, success or discarded
    dedicated,      \* requests whose own success event is in audit_events
    did             \* requests whose change is in the database

auditVars == <<content, notes, noteLock, clock, request, audit, dedicated, did>>

Empty == [note |-> NoText, setting |-> "on", pinned |-> FALSE, scans |-> {}, users |-> 0,
          tag |-> [t \in TagIds |-> NoText], on |-> {}]

AuditInit ==
    /\ content = Empty /\ notes = <<>> /\ noteLock = NoText /\ clock = 0
    /\ request = [r \in Requests |-> [pc |-> "idle", op |-> [kind |-> "none"], at |-> 0,
                    changed |-> TRUE, committed |-> FALSE, own |-> FALSE, status |-> "none"]]
    /\ audit = [r \in Requests |-> "none"]
    /\ dedicated = {} /\ did = {}

-----------------------------------------------------------------------------
(* The statements of the routes: what the tables are after one of them.      *)

Exists(t) == content.tag[t] # NoText
Taken(name, t) == \E u \in TagIds \ {t} : content.tag[u] = name

\* 409 for an id or a name in use, 404 for a tag that is gone, an error for a foreign key.
Refused(op) ==
    CASE op.kind = "tag.create" ->
            IF Exists(op.tag) \/ Taken(op.name, op.tag) THEN "conflict" ELSE "no"
      [] op.kind = "tag.update" ->
            IF Exists(op.tag) /\ content.tag[op.tag] # op.name /\ Taken(op.name, op.tag)
            THEN "conflict" ELSE "no"
      [] op.kind = "tag.delete" -> IF Exists(op.tag) THEN "no" ELSE "missing"
      [] op.kind = "assign"     -> IF Exists(op.tag) THEN "no" ELSE "error"
      [] OTHER -> "no"

Assigned(op) == IF op.kind = "assign" THEN content.on \cup {op.tag} ELSE content.on \ {op.tag}

After(op) ==
    CASE op.kind = "tag.create" -> [content EXCEPT !.tag[op.tag] = op.name]
      [] op.kind = "tag.update" ->
            IF Exists(op.tag) THEN [content EXCEPT !.tag[op.tag] = op.name] ELSE content
      \* ON DELETE CASCADE
      [] op.kind = "tag.delete" -> [content EXCEPT !.tag[op.tag] = NoText, !.on = @ \ {op.tag}]
      [] op.kind \in {"assign", "unassign"} -> [content EXCEPT !.on = Assigned(op)]
      [] op.kind = "pin"      -> [content EXCEPT !.pinned = op.to]
      [] op.kind = "setting"  -> [content EXCEPT !.setting = op.to]

OneStatement ==
    {"tag.create", "tag.update", "tag.delete", "assign", "unassign", "pin", "setting"}

-----------------------------------------------------------------------------
(* Steps of a request.                                                       *)

Is(r, pc, kinds) == request[r].pc = pc /\ request[r].op.kind \in kinds

Set(r, new) == request' = [request EXCEPT ![r] = new]

Answers(r, status) == [request[r] EXCEPT !.pc = "answered", !.status = status]

\* markAuditNoChange
Unchanging(q) == [q EXCEPT !.changed = FALSE]

UnchangedBut(r, new) ==
    Set(r, new) /\ UNCHANGED <<content, notes, noteLock, clock, audit, dedicated, did>>

\* The intent is stored before anything else; without it the route does not run.
Start(r, op) ==
    /\ request[r].pc = "idle"
    /\ \/ /\ Set(r, [request[r] EXCEPT !.pc = "route", !.op = op])
          /\ audit' = [audit EXCEPT ![r] = "pending"]
       \/ /\ Set(r, [request[r] EXCEPT !.pc = "done", !.op = op])
          /\ UNCHANGED audit
    /\ UNCHANGED <<content, notes, noteLock, clock, dedicated, did>>

\* One statement, with its answer or without: an answer that is lost is an error
\* of a route that has changed the table.
State(r) ==
    LET op == request[r].op IN
    /\ Is(r, "route", OneStatement) /\ Refused(op) = "no"
    /\ content' = After(op)
    /\ did' = IF After(op) # content THEN did \cup {r} ELSE did
    /\ \/ Set(r, Answers(r, "error"))
       \/ /\ After(op) # content
          /\ Set(r, Answers(r, "ok"))
       \/ /\ After(op) = content
          /\ Set(r, IF op.kind = "tag.update" THEN [request[r] EXCEPT !.pc = "select"]
                                               ELSE Unchanging(Answers(r, "ok")))
    /\ UNCHANGED <<notes, noteLock, clock, audit, dedicated>>

Refuse(r) ==
    /\ Is(r, "route", OneStatement) /\ Refused(request[r].op) # "no"
    /\ UnchangedBut(r, Answers(r, Refused(request[r].op)))

\* The UPDATE of a tag matched no row: the tag is gone, or it already is as asked.
SelectTag(r) ==
    /\ request[r].pc = "select"
    /\ UnchangedBut(r, IF Exists(request[r].op.tag) THEN Unchanging(Answers(r, "ok"))
                                                   ELSE Answers(r, "missing"))

-----------------------------------------------------------------------------
(* The note: one transaction, under the advisory lock of its slug.  now() is *)
(* the time of BEGIN, which comes before the wait for the lock.              *)

BeginNote(r) ==
    /\ Is(r, "route", {"note"})
    /\ clock' = clock + 1
    /\ Set(r, [request[r] EXCEPT !.pc = "lock", !.at = clock + 1])
    /\ UNCHANGED <<content, notes, noteLock, audit, dedicated, did>>

LockNote(r) ==
    /\ request[r].pc = "lock" /\ noteLock = NoText
    /\ IF content.note = request[r].op.body
       THEN Set(r, Unchanging(Answers(r, "ok"))) /\ UNCHANGED noteLock
       ELSE Set(r, [request[r] EXCEPT !.pc = "write"]) /\ noteLock' = r
    /\ UNCHANGED <<content, notes, clock, audit, dedicated, did>>

\* History and note in one commit, whose answer may be lost.
CommitNote(r) ==
    /\ request[r].pc = "write"
    /\ content' = [content EXCEPT !.note = request[r].op.body]
    /\ notes' = Append(notes, [body |-> request[r].op.body, at |-> request[r].at])
    /\ did' = did \cup {r}
    /\ noteLock' = NoText
    /\ \E status \in {"ok", "error"} : Set(r, Answers(r, status))
    /\ UNCHANGED <<clock, audit, dedicated>>

NoteFails(r) ==
    /\ request[r].pc \in {"lock", "write"}
    /\ Set(r, Answers(r, "error"))
    /\ noteLock' = IF request[r].pc = "write" THEN NoText ELSE noteLock
    /\ UNCHANGED <<content, notes, clock, audit, dedicated, did>>

-----------------------------------------------------------------------------
(* A scan of every bucket: a job each, the later ones not enqueued when one  *)
(* fails.  A job that is open already is not a change.                       *)

Enqueue(r) ==
    LET op == request[r].op IN
    /\ Is(r, "route", {"scan"})
    /\ \E b \in op.buckets :
          /\ content' = [content EXCEPT !.scans = @ \cup {b}]
          /\ did' = IF b \in content.scans THEN did ELSE did \cup {r}
          /\ Set(r, IF op.buckets = {b}
                    THEN IF r \in did' THEN Answers(r, "ok") ELSE Unchanging(Answers(r, "ok"))
                    ELSE [request[r] EXCEPT !.op.buckets = @ \ {b}])
    /\ UNCHANGED <<notes, noteLock, clock, audit, dedicated>>

\* Any route may also throw before it changes anything more.
Throw(r) ==
    /\ request[r].pc = "route"
    /\ UnchangedBut(r, Answers(r, "error"))

-----------------------------------------------------------------------------
(* Routes that write an audit of their own: they commit, mark the change as  *)
(* committed, write the event, and may still fail after that.                *)

Commit(r) ==
    /\ Is(r, "route", {"users"})
    /\ content' = [content EXCEPT !.users = @ + 1]
    /\ did' = did \cup {r}
    /\ \/ Set(r, Answers(r, "error"))                       \* the answer is lost
       \/ Set(r, [request[r] EXCEPT !.pc = "own", !.committed = TRUE])
    /\ UNCHANGED <<notes, noteLock, clock, audit, dedicated>>

WriteDedicatedAudit(r) ==
    /\ request[r].pc = "own"
    /\ \E stored, told \in BOOLEAN, status \in {"ok", "error"} :
          /\ told => stored
          /\ dedicated' = IF stored THEN dedicated \cup {r} ELSE dedicated
          /\ Set(r, [Answers(r, status) EXCEPT !.own = told])
    /\ UNCHANGED <<content, notes, noteLock, clock, audit, did>>

-----------------------------------------------------------------------------
(* The middleware, when the route has answered or thrown.                    *)

CommittedUnaudited(q) == q.committed /\ ~q.own

\* mutant: a route that throws has changed nothing
Outcome_Trusting(q) ==
    IF q.status # "ok" \/ ~q.changed \/ q.op.kind = "users" THEN "discarded" ELSE "success"

Outcome(q) ==
    IF CommittedUnaudited(q) THEN "success"
    ELSE IF q.status # "ok" \/ ~q.changed \/ q.op.kind = "users" THEN "discarded"
    ELSE "success"

\* An intent that cannot be finished or discarded stays pending.
FinishIntent(r) ==
    /\ request[r].pc = "answered"
    /\ Set(r, [request[r] EXCEPT !.pc = "done"])
    /\ \/ audit' = [audit EXCEPT ![r] = Outcome(request[r])]
       \/ UNCHANGED audit
    /\ UNCHANGED <<content, notes, noteLock, clock, dedicated, did>>

\* The process dies: open transactions roll back, nothing runs after them.
ApiDies ==
    /\ \E r \in Requests : request[r].pc \notin {"idle", "done"}
    /\ request' = [r \in Requests |->
                     [request[r] EXCEPT !.pc = IF @ = "idle" THEN "idle" ELSE "done"]]
    /\ noteLock' = NoText
    /\ UNCHANGED <<content, notes, clock, audit, dedicated, did>>

AuditNext ==
    \/ \E r \in Requests :
          \/ \E op \in Mutations : Start(r, op)
          \/ State(r) \/ Refuse(r) \/ SelectTag(r)
          \/ BeginNote(r) \/ LockNote(r) \/ CommitNote(r) \/ NoteFails(r)
          \/ Enqueue(r) \/ Throw(r) \/ Commit(r) \/ WriteDedicatedAudit(r) \/ FinishIntent(r)
    \/ ApiDies

AuditSpec == AuditInit /\ [][AuditNext]_auditVars

-----------------------------------------------------------------------------
Recorded(r) == audit[r] \in {"pending", "success"} \/ r \in dedicated

\* Whatever dies or fails on the way, a change that is in the database keeps an
\* event, finished or pending; only a route that ends in an error without having
\* marked its change as committed leaves none.
ChangesAreRecorded ==
    \A r \in did : Recorded(r) \/ (request[r].status = "error" /\ ~request[r].committed)

\* An event of success is about a request that changed something: the routes
\* that answer 200 without a change say so, also when another request has made
\* the change between two of their statements.
SuccessMeansChange ==
    \A r \in Requests : audit[r] = "success" \/ r \in dedicated => r \in did

\* The audit log tells what was done, no less and no more.
AuditTellsTheTruth == ChangesAreRecorded /\ SuccessMeansChange

\* The last version stored is the note, and no version repeats the one before:
\* two PUTs of one slug are one after the other.
NoteIsItsLastVersion ==
    /\ notes # <<>> => notes[Len(notes)].body = content.note
    /\ \A i \in 2..Len(notes) : notes[i].body # notes[i - 1].body

\* Both records of a change, the audit log and the history of a note, are of what is
\* in the database.
RecordsTellTheTruth == AuditTellsTheTruth /\ NoteIsItsLastVersion
=============================================================================
