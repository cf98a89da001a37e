-------------------------- MODULE ConnectionEditing --------------------------
(* Administrators edit connections side by side: the page with the list, its   *)
(* export and import (pages/ConnectionsPage.tsx), the form                     *)
(* (pages/ConnectionEditorPage.tsx, components/ConnectionForm.tsx,             *)
(* lib/connectionFormState.ts) and what the api does with what they send       *)
(* (api/routes/connections.ts).  A form shows the connection as it was when    *)
(* the page was opened and sends what differs from that.                       *)
(*                                                                             *)
(* A PUT is one step here; what two of them do to each other between their     *)
(* statements is in ConnectionSettings.  "basic" stands for the fields that    *)
(* are sent each on its own: endpoint, region, path style, list version, page  *)
(* size, time to live, speeds, instability, class and rate.  Room is counted   *)
(* in twentieths of a TiB, of which the form shows every second.               *)
EXTENDS Naturals, FiniteSets

CONSTANTS
    Admins, ConnectionIds,        \* connections that are there or will be
    Names, Members,     \* names of connections, users of the allowlists
    FirstRows,          \* what ConnectionIds -> connection or Absent can be at the start
    MaxTouched,         \* bound: fields one visit to a form touches
    MaxVisits,          \* bound: visits of one administrator to forms and imports
    Absent

ASSUME EditingAssumption == MaxTouched \in Nat /\ MaxVisits \in Nat /\ Absent \notin Names

VARIABLES
    stored,       \* ConnectionIds -> the connection, or Absent
    members,    \* users that are not deleted
    form,       \* Admins -> [pc, id, base, shown, touched]
    list,       \* Admins -> what the page with the list shows
    file,       \* entries of the exported file
    import,     \* Admins -> [pc, doomed, known, of, left]
    visits      \* Admins -> visits begun

editingVars == <<stored, members, form, list, file, import, visits>>

-----------------------------------------------------------------------------
(* Fields, and which of them are sent together.                              *)

Groups ==
    { {"name"}, {"basic"}, {"secret"}, {"mode", "users"}, {"read"}, {"write"}, {"scan"},
      {"metrics"}, {"track", "every"}, {"provider"}, {"room"} }
Fields == UNION Groups

FieldValues ==
    [ name |-> Names \cup {Absent}, basic |-> {1, 2}, secret |-> {Absent, 1, 2},
      mode |-> {"public", "whitelist"}, users |-> SUBSET Members,
      read |-> BOOLEAN, write |-> BOOLEAN, scan |-> BOOLEAN, metrics |-> BOOLEAN,
      track |-> BOOLEAN, every |-> {6, 24}, provider |-> {Absent, "aws"}, room |-> {Absent, 3, 4, 6} ]

IsConnection(row) ==
    row = [f \in Fields |-> row[f]] /\ \A f \in Fields : row[f] \in FieldValues[f]

\* Any value of a field, so that Absent can be told from a connection.
AnyValues == Names \cup {Absent} \cup Nat \cup {"public", "whitelist", "aws"} \cup BOOLEAN \cup SUBSET Members

ASSUME RowsAssumption ==
    /\ Absent \notin [Fields -> AnyValues]
    /\ \A rows \in FirstRows :
          /\ rows = [i \in ConnectionIds |-> rows[i]]
          /\ \A i \in ConnectionIds : rows[i] # Absent => IsConnection(rows[i])

\* A new connection; also what an empty form shows.
NewRow ==
    [ name |-> Absent, basic |-> 1, secret |-> Absent, mode |-> "public", users |-> {},
      read |-> TRUE, write |-> TRUE, scan |-> TRUE, metrics |-> TRUE,
      track |-> FALSE, every |-> 24, provider |-> Absent, room |-> Absent ]

\* Fields that only the form of an existing connection has.
EditOnly == {"metrics", "track", "every", "provider", "room"}

\* Math.round(tb * 10) / 10
ToTenths(room) == IF room = Absent THEN Absent ELSE 2 * ((room + 1) \div 2)

\* toMasked: deleted users are not shown.
Masked(row) == [row EXCEPT !.users = @ \cap members]

\* initialState
FormOf(row) == [row EXCEPT !.secret = Absent, !.room = ToTenths(@)]

\* What can be changed in a form: not what is disabled or not there.
Touchable(shown, editing, f) ==
    /\ f \in EditOnly => editing
    /\ f = "users" => shown.mode = "whitelist"
    /\ f = "write" => shown.read
    /\ f \in {"metrics", "track", "every"} => shown.scan
    /\ f \in {"track", "every"} => shown.metrics
    /\ f = "every" => shown.track

\* reducer: what cannot be without the other goes off with it.
Reduced(shown, f, v) ==
    CASE f \in {"scan", "metrics"} /\ v = FALSE -> [shown EXCEPT ![f] = FALSE, !.track = FALSE]
      [] f = "read" /\ v = FALSE -> [shown EXCEPT !.read = FALSE, !.write = FALSE]
      [] OTHER -> [shown EXCEPT ![f] = v]

Differs(shown, base, f) == IF f = "secret" THEN shown.secret # Absent ELSE shown[f] # base[f]

\* mutant: the form is sent as it is
UpdateInput_Whole(shown, base) == [f \in Fields \ {"secret"} |-> shown[f]]

\* toUpdateInput
UpdateInput(shown, base) ==
    [f \in UNION {g \in Groups : \E e \in g : Differs(shown, base, e)} |-> shown[f]]

\* toCreateInput: whether scans are allowed is not sent, though the form asks.
CreateInput(shown) == [f \in Fields |-> IF f \in EditOnly \cup {"scan"} THEN NewRow[f] ELSE shown[f]]

-----------------------------------------------------------------------------
(* What the api does.                                                        *)

Named(name) == {i \in ConnectionIds : stored[i] # Absent /\ stored[i].name = name}
FreeIds == {i \in ConnectionIds : stored[i] = Absent}

\* The row a PUT leaves: users are only replaced if they are others.
Patched(row, input) ==
    [f \in Fields |->
        IF f \in DOMAIN input /\ (f = "users" => input[f] # row.users \cap members)
        THEN input[f] ELSE row[f]]

\* A README cannot be written that cannot be read, tracking needs the scans and
\* the metrics, and a user on the list has to be there.
Acceptable(row, new, input) ==
    /\ DOMAIN input \cap {"read", "write"} # {} => ~new.write \/ new.read
    /\ new.track => new.scan /\ new.metrics
    /\ "users" \in DOMAIN input /\ input.users # row.users \cap members => input.users \subseteq members

\* PUT /connections/:id
Update(i, input) ==
    LET new == Patched(stored[i], input) IN
    /\ stored[i] # Absent
    /\ Acceptable(stored[i], new, input)
    /\ Named(new.name) \subseteq {i}
    /\ stored' = [stored EXCEPT ![i] = new]

\* POST /connections
InsertRow(row) ==
    /\ ~row.write \/ row.read
    /\ row.users \subseteq members
    /\ Named(row.name) = {}
    /\ \E i \in FreeIds : stored' = [stored EXCEPT ![i] = row]

Delete(i) == stored[i] # Absent /\ stored' = [stored EXCEPT ![i] = Absent]

-----------------------------------------------------------------------------
(* The form.                                                                 *)

Closed == [pc |-> "list"]

\* GET /connections, by an administrator
Listed == [i \in ConnectionIds |-> IF stored[i] = Absent THEN Absent ELSE Masked(stored[i])]

EditingInit ==
    /\ stored \in FirstRows
    /\ members = Members
    /\ form = [a \in Admins |-> Closed]
    /\ list = [a \in Admins |-> Listed]
    /\ file = {}
    /\ import = [a \in Admins |-> Closed]
    /\ visits = [a \in Admins |-> 0]

OnList(a) == form[a].pc = "list" /\ import[a].pc = "list"

Visit(a) == OnList(a) /\ visits[a] < MaxVisits /\ visits' = [visits EXCEPT ![a] = @ + 1]

OpenNew(a) ==
    /\ Visit(a)
    /\ form' = [form EXCEPT ![a] = [pc |-> "new", id |-> Absent, base |-> NewRow, shown |-> NewRow, touched |-> {}]]
    /\ UNCHANGED <<stored, members, list, file, import>>

\* The editor loads the list and picks its connection.
OpenEditor(a, i) ==
    /\ Visit(a)
    /\ stored[i] # Absent
    /\ LET base == Masked(stored[i]) IN
       form' = [form EXCEPT ![a] = [pc |-> "edit", id |-> i, base |-> base, shown |-> FormOf(base), touched |-> {}]]
    /\ UNCHANGED <<stored, members, list, file, import>>

Touch(a, f, v) ==
    /\ form[a].pc \in {"new", "edit"}
    /\ Touchable(form[a].shown, form[a].pc = "edit", f)
    /\ v # form[a].shown[f]
    /\ LET shown == Reduced(form[a].shown, f, v)
           touched == form[a].touched \cup {e \in Fields : shown[e] # form[a].shown[e]} IN
       /\ Cardinality(touched) <= MaxTouched
       /\ form' = [form EXCEPT ![a].shown = shown, ![a].touched = touched]
    /\ UNCHANGED <<stored, members, list, file, import, visits>>

\* validateForm
Sendable(a) ==
    /\ form[a].pc \in {"new", "edit"}
    /\ form[a].shown.name # Absent
    /\ form[a].pc = "new" => form[a].shown.secret # Absent

Input(a) == UpdateInput(form[a].shown, form[a].base)

\* The form closes when it is told that it was saved.  Refused, or with an answer
\* that is lost, it stays as it is, and can be sent again.
Saved(a) ==
    /\ UNCHANGED <<members, file, import, visits>>
    /\ \/ /\ form' = [form EXCEPT ![a] = Closed]
          /\ list' = [list EXCEPT ![a] = Listed']
       \/ UNCHANGED <<form, list>>

Save(a) ==
    /\ Sendable(a)
    /\ \/ form[a].pc = "edit" /\ Update(form[a].id, Input(a))
       \/ form[a].pc = "new" /\ InsertRow(CreateInput(form[a].shown))
    /\ Saved(a)

CloseForm(a) ==
    /\ form[a].pc \in {"new", "edit"}
    /\ form' = [form EXCEPT ![a] = Closed]
    /\ UNCHANGED <<stored, members, list, file, import, visits>>

-----------------------------------------------------------------------------
(* The list.                                                                 *)

LoadList(a) ==
    /\ OnList(a)
    /\ list' = [list EXCEPT ![a] = Listed]
    /\ UNCHANGED <<stored, members, form, file, import, visits>>

Shown(a) == {i \in ConnectionIds : list[a][i] # Absent}

DeleteOne(a, i) ==
    /\ OnList(a) /\ i \in Shown(a)
    /\ Delete(i)
    /\ UNCHANGED <<members, form, list, file, import, visits>>

\* The secrets are not in the file; somebody writes them into it.
Export(a) ==
    /\ OnList(a)
    /\ file' = {[f \in {"name", "mode", "users", "read", "write"} |-> list[a][i][f]] : i \in Shown(a)}
    /\ UNCHANGED <<stored, members, form, list, import, visits>>

\* Replacing deletes first what the list shows and the file does not name.
StartImport(a, replace) ==
    /\ Visit(a) /\ file # {}
    /\ import' = [import EXCEPT ![a] =
          [ pc |-> "import",
            doomed |-> IF replace THEN {i \in Shown(a) : \A e \in file : e.name # list[a][i].name} ELSE {},
            known |-> {list[a][i].name : i \in Shown(a)},
            of |-> file, left |-> file ]]
    /\ UNCHANGED <<stored, members, form, list, file>>

\* A delete that fails, or whose answer is lost, leaves the name known.
ImportDelete(a, i) ==
    /\ import[a].pc = "import" /\ i \in import[a].doomed
    /\ \/ /\ Delete(i)
          /\ import' = [import EXCEPT ![a].doomed = @ \ {i}, ![a].known = @ \ {list[a][i].name}]
       \/ /\ Delete(i) \/ UNCHANGED stored
          /\ import' = [import EXCEPT ![a].doomed = @ \ {i}]
    /\ UNCHANGED <<members, form, list, file, visits>>

\* sanitizeCapabilities, sanitizeVisibility.  What the file does not hold gets its
\* default.
Restored(e) ==
    [NewRow EXCEPT !.name = e.name, !.secret = 1, !.mode = e.mode, !.users = e.users,
                   !.read = e.read, !.write = e.write /\ e.read]

\* What is known is skipped; what lacks its keys or the api refuses is counted.  A
\* file holds a name once.
ImportOne(a, e) ==
    /\ import[a].pc = "import" /\ import[a].doomed = {} /\ e \in import[a].left
    /\ \/ e.name \notin import[a].known /\ InsertRow(Restored(e))
       \/ UNCHANGED stored
    /\ import' = [import EXCEPT ![a].left = @ \ {e}]
    /\ UNCHANGED <<members, form, list, file, visits>>

\* onDone: the list is loaded again.
ImportEnds(a) ==
    /\ import[a].pc = "import" /\ import[a].doomed = {} /\ import[a].left = {}
    /\ import' = [import EXCEPT ![a] = Closed]
    /\ list' = [list EXCEPT ![a] = Listed]
    /\ UNCHANGED <<stored, members, form, file, visits>>

\* DELETE of a user, by an administrator of the accounts.
DeleteMember(u) ==
    /\ u \in members
    /\ members' = members \ {u}
    /\ UNCHANGED <<stored, form, list, file, import, visits>>
-----------------------------------------------------------------------------
EditingNext ==
    \/ \E a \in Admins :
        \/ OpenNew(a) \/ Save(a) \/ CloseForm(a)
        \/ LoadList(a) \/ Export(a) \/ ImportEnds(a)
        \/ \E i \in ConnectionIds : OpenEditor(a, i) \/ DeleteOne(a, i) \/ ImportDelete(a, i)
        \/ \E f \in Fields : \E v \in FieldValues[f] : Touch(a, f, v)
        \/ \E replace \in BOOLEAN : StartImport(a, replace)
        \/ \E e \in (IF import[a].pc = "import" THEN import[a].left ELSE {}) : ImportOne(a, e)
    \/ \E u \in Members : DeleteMember(u)

EditingSpec == EditingInit /\ [][EditingNext]_editingVars

-----------------------------------------------------------------------------
(* Properties.                                                               *)

Edits(a, i) == form[a].pc = "edit" /\ form[a].id = i

\* Whether a connection became what an administrator's form shows, and only in
\* what that administrator touched.  Room is left out: see NothingUntouchedIsSent.
MeantByForm(i) ==
    \E a \in Admins :
        /\ Edits(a, i)
        /\ \A g \in Groups \ {{"room"}} :
              (\E f \in g : stored'[i][f] # stored[i][f])
                  => /\ g \cap form[a].touched # {}
                     /\ \A f \in g : stored'[i][f] = form[a].shown[f] \/ stored'[i][f] = stored[i][f]

\* Whether a connection that is new is the one of a form (but for the scans, which
\* it does not send), or one of the file that is no more open than the file says.
MeantByNew(i) ==
    \E a \in Admins :
        \/ form[a].pc = "new" /\ \A f \in Fields : stored'[i][f] = form[a].shown[f] \/ f = "scan"
        \/ /\ import[a].pc = "import"
           /\ \E e \in import[a].left :
                 /\ stored'[i].name = e.name
                 /\ stored'[i].mode = e.mode /\ stored'[i].users = e.users
                 /\ stored'[i].read => e.read
                 /\ stored'[i].write => e.write

\* Whether somebody who deletes a connection was shown it, and an import that
\* replaces was shown it under a name that its file does not hold.
MeantByDeletion(i) ==
    \E a \in Admins :
        /\ list[a][i] # Absent
        /\ \/ OnList(a)
           \/ import[a].pc = "import" /\ \A e \in import[a].of : e.name # list[a][i].name

\* However the forms, imports and deletions of administrators interleave, and
\* although forms and lists are older than the connections they are sent for, a
\* connection only changes in what its editor touched and to what the form shows
\* (the mode with its users, and the tracking with its interval, go together); one
\* that is restored is not more open than it was exported; and one only
\* disappears that was shown to whoever deletes it.
OnlyWhatWasMeant ==
    [][\A i \in ConnectionIds :
          stored'[i] # stored[i] =>
              CASE stored[i] = Absent -> MeantByNew(i)
                [] stored'[i] = Absent -> MeantByDeletion(i)
                [] OTHER -> MeantByForm(i)]_editingVars

\* "Only the items that changed compared with the connection; {} if nothing did"
\* (connectionFormState.ts, above toUpdateInput): what a form would send was
\* touched, by itself or with what is sent together with it.
NothingUntouchedIsSent ==
    \A a \in Admins :
        form[a].pc = "edit" =>
            \A f \in DOMAIN Input(a) : \E g \in Groups : f \in g /\ g \cap form[a].touched # {}
=============================================================================
