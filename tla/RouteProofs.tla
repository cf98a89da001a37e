----------------------------- MODULE RouteProofs ------------------------------
(* Theorems of the routes that change shared content, and of the sessions of   *)
(* single sign-on: LineageCuration, AuditedContent, ReadmeListing and          *)
(* OidcSessions, for every number of requests, events, tags, PUTs, listings,   *)
(* logins and visits; and of the lineage page, LineageView, for every set of    *)
(* nodes and every number of its requests.                                      *)
EXTENDS LineageCuration, AuditedContent, ReadmeListing, OidcSessions, LineageView,
        SequenceTheorems, TLAPS

-----------------------------------------------------------------------------
(* A chain of promises as a lock: who is in it stands in it once, and only    *)
(* its head holds the lock.                                                   *)

ChainInv(S, tail, in, hold) ==
    /\ tail \in Seq(S) /\ in \subseteq S /\ hold \subseteq in
    /\ \A q \in S : q \in in <=> \E i \in 1 .. Len(tail) : tail[i] = q
    /\ \A i, j \in 1 .. Len(tail) : tail[i] = tail[j] => i = j
    /\ \A q \in hold : Len(tail) > 0 /\ tail[1] = q

LEMMA ChainStarts ==
    ASSUME NEW S
    PROVE  ChainInv(S, <<>>, {}, {})
BY DEF ChainInv

LEMMA ChainHead ==
    ASSUME NEW S, NEW tail, NEW in, NEW hold, ChainInv(S, tail, in, hold), NEW q \in in,
           Head(tail) = q \/ q \in hold
    PROVE  Len(tail) > 0 /\ tail[1] = q
BY DEF ChainInv

\* The head takes the lock, or a holder lets it go to nobody.
LEMMA ChainKeeps ==
    ASSUME NEW S, NEW tail, NEW in, NEW hold, ChainInv(S, tail, in, hold),
           NEW q \in in, NEW new, new \subseteq hold \cup {q}, Len(tail) > 0, tail[1] = q
    PROVE  ChainInv(S, tail, in, new)
BY DEF ChainInv

LEMMA ChainJoins ==
    ASSUME NEW S, NEW tail, NEW in, NEW hold, ChainInv(S, tail, in, hold), NEW q \in S \ in
    PROVE  ChainInv(S, Append(tail, q), in \cup {q}, hold)
<1> DEFINE t == Append(tail, q)
<1>1. /\ tail \in Seq(S) /\ t \in Seq(S) /\ Len(t) = Len(tail) + 1 /\ Len(tail) \in Nat
      /\ t[Len(tail) + 1] = q /\ \A i \in 1 .. Len(tail) : t[i] = tail[i]
  BY DEF ChainInv
<1>2. \A i \in 1 .. Len(tail) : tail[i] # q
  BY DEF ChainInv
<1> HIDE DEF t
<1>3. ASSUME NEW p \in S PROVE p \in in \cup {q} <=> \E i \in 1 .. Len(t) : t[i] = p
  <2>1. CASE p = q
    BY <1>1, <2>1
  <2>2. CASE p # q
    <3>1. (\E i \in 1 .. Len(tail) : tail[i] = p) <=> (\E i \in 1 .. Len(t) : t[i] = p)
      BY <1>1, <2>2
    <3> QED BY <2>2, <3>1 DEF ChainInv
  <2> QED BY <2>1, <2>2
<1>4. \A i, j \in 1 .. Len(t) : t[i] = t[j] => i = j
  BY <1>1, <1>2 DEF ChainInv
<1>5. \A p \in hold : Len(t) > 0 /\ t[1] = p
  BY <1>1 DEF ChainInv
<1>6. in \cup {q} \subseteq S /\ hold \subseteq in \cup {q}
  BY DEF ChainInv
<1> QED BY <1>1, <1>3, <1>4, <1>5, <1>6 DEF ChainInv, t

LEMMA ChainLeaves ==
    ASSUME NEW S, NEW tail, NEW in, NEW hold, ChainInv(S, tail, in, hold), NEW q,
           Len(tail) > 0, tail[1] = q
    PROVE  ChainInv(S, Tail(tail), in \ {q}, {})
<1> DEFINE t == Tail(tail)
<1>1. tail \in Seq(S) /\ Len(tail) \in Nat /\ tail # <<>>
  BY DEF ChainInv
<1>2. /\ t \in Seq(S) /\ Len(t) = Len(tail) - 1
      /\ \A i \in 1 .. Len(t) : t[i] = tail[i + 1]
  BY <1>1, HeadTailProperties
<1> HIDE DEF t
<1>3. \A i \in 2 .. Len(tail) : tail[i] # q
  BY <1>1 DEF ChainInv
<1>4. ASSUME NEW p \in S PROVE p \in in \ {q} <=> \E i \in 1 .. Len(t) : t[i] = p
  <2>1. CASE p = q
    <3>1. \A i \in 1 .. Len(t) : t[i] # p
      BY <1>1, <1>2, <1>3, <2>1
    <3> QED BY <2>1, <3>1
  <2>2. CASE p # q
    <3>1. p \in in <=> \E i \in 1 .. Len(tail) : tail[i] = p
      BY DEF ChainInv
    <3>2. ASSUME NEW i \in 1 .. Len(tail), tail[i] = p PROVE \E j \in 1 .. Len(t) : t[j] = p
      <4>1. i - 1 \in 1 .. Len(t) /\ t[i - 1] = p
        BY <1>1, <1>2, <2>2, <3>2
      <4> QED BY <4>1
    <3>3. ASSUME NEW j \in 1 .. Len(t), t[j] = p PROVE \E i \in 1 .. Len(tail) : tail[i] = p
      <4>1. j + 1 \in 1 .. Len(tail) /\ tail[j + 1] = p
        BY <1>1, <1>2, <3>3
      <4> QED BY <4>1
    <3> QED BY <2>2, <3>1, <3>2, <3>3
  <2> QED BY <2>1, <2>2
<1>5. ASSUME NEW i \in 1 .. Len(t), NEW j \in 1 .. Len(t), t[i] = t[j] PROVE i = j
  <2>1. i + 1 \in 1 .. Len(tail) /\ j + 1 \in 1 .. Len(tail) /\ tail[i + 1] = tail[j + 1]
    BY <1>1, <1>2, <1>5
  <2>2. i + 1 = j + 1
    BY <2>1 DEF ChainInv
  <2> QED BY <2>2
<1>6. in \ {q} \subseteq S
  BY DEF ChainInv
<1> QED BY <1>2, <1>4, <1>5, <1>6 DEF ChainInv, t

-----------------------------------------------------------------------------
(* Lineage metadata: requests to the Registry.                               *)

HoldPcs == {"compare", "send", "read back", "audit"}
LinePcs == {"line", "compare", "send", "read back", "audit"}

CuratorRec == [pc : {"idle", "done"} \cup LinePcs, ask : Asks \cup {NoAsk}, seen : [Fields -> Values],
               changed : BOOLEAN, audited : BOOLEAN,
               status : {"none", "unbound", "error", "unchanged", "conflict", "ok"}]

\* An edit is in the chain of promises until it is answered, and past its turn it
\* is at the head.
InLine(rec) == rec.ask.kind = "edit" /\ rec.pc \in LinePcs
Holding(rec) == rec.ask.kind = "edit" /\ rec.pc \in HoldPcs

LEMMA HoldingIsInLine ==
    ASSUME NEW rec, Holding(rec)
    PROVE  InLine(rec)
<1>1. rec.ask.kind = "edit" /\ rec.pc \in HoldPcs
  BY DEF Holding
<1>2. HoldPcs \subseteq LinePcs
  BY DEF LinePcs, HoldPcs
<1> QED BY <1>1, <1>2 DEF InLine

LineInv(tail, cur) ==
    ChainInv(Curators, tail, {q \in Curators : InLine(cur[q])}, {q \in Curators : Holding(cur[q])})

\* What a request knows of itself.
CuratorOK(rec) ==
    /\ rec.pc # "idle" => rec.ask \in Asks
    /\ rec.pc \in {"read back", "audit"} => rec.changed
    /\ rec.audited => rec.changed
    /\ rec.status = "ok" => rec.audited

\* What it has read is what it will replace.
SeesNow(rec, now, stray) ==
    rec.ask.kind = "edit" /\ rec.pc \in {"compare", "send"} => rec.seen = now \/ stray

CurationInv ==
    /\ dataset \in [Fields -> Values] /\ strayed \in BOOLEAN
    /\ curator \in [Curators -> CuratorRec]
    /\ LineInv(mutationTail, curator)
    /\ \A q \in Curators : CuratorOK(curator[q]) /\ SeesNow(curator[q], dataset, strayed)
    /\ inFlight \subseteq {q \in Curators : curator[q].pc = "done" /\ curator[q].ask \in Asks}

LEMMA AskKinds ==
    ASSUME NEW ask \in Asks
    PROVE  \/ ask.kind = "edit" /\ ask.fields \in Edits
           \/ ask.kind = "place" /\ ask.place \in Places
           \/ ask.kind = "run"
BY DEF Asks

LEMMA PatchedType ==
    ASSUME dataset \in [Fields -> Values], NEW fields \in Edits
    PROVE  Patched(fields) \in [Fields -> Values]
<1>1. PICK fs \in SUBSET Fields : fields \in [fs -> Values]
  BY DEF Edits
<1> QED BY <1>1 DEF Patched

\* The three things that can happen to the chain.
LEMMA LineKeeps ==
    ASSUME NEW tail, NEW cur \in [Curators -> CuratorRec], LineInv(tail, cur),
           NEW q \in Curators, NEW rec \in CuratorRec,
           InLine(rec) <=> InLine(cur[q]),
           Holding(rec) => Len(tail) > 0 /\ tail[1] = q
    PROVE  LineInv(tail, [cur EXCEPT ![q] = rec])
<1> DEFINE new == [cur EXCEPT ![q] = rec]
           in == {p \in Curators : InLine(cur[p])}
           hold == {p \in Curators : Holding(cur[p])}
           after == {p \in Curators : Holding(new[p])}
<1>1. new[q] = rec /\ \A p \in Curators \ {q} : new[p] = cur[p]
  OBVIOUS
<1> HIDE DEF new
<1>2. {p \in Curators : InLine(new[p])} = in
  BY <1>1
<1>3. CASE Holding(rec)
  <2>1. q \in in /\ after \subseteq hold \cup {q}
    BY <1>1, <1>3, HoldingIsInLine
  <2>2. ChainInv(Curators, tail, in, hold)
    BY DEF LineInv
  <2> HIDE DEF in, hold, after
  <2>3. ChainInv(Curators, tail, in, after)
    BY <1>3, <2>1, <2>2, ChainKeeps
  <2> QED BY <1>2, <2>3 DEF LineInv, after, new
<1>4. CASE ~Holding(rec)
  <2>1. after \subseteq hold
    BY <1>1, <1>4
  <2>2. ChainInv(Curators, tail, in, after)
    BY <2>1 DEF LineInv, ChainInv
  <2> QED BY <1>2, <2>2 DEF LineInv, new
<1> QED BY <1>3, <1>4

LEMMA LineJoins ==
    ASSUME NEW tail, NEW cur \in [Curators -> CuratorRec], LineInv(tail, cur),
           NEW q \in Curators, NEW rec \in CuratorRec,
           ~InLine(cur[q]), InLine(rec), ~Holding(rec)
    PROVE  LineInv(Append(tail, q), [cur EXCEPT ![q] = rec])
<1> DEFINE new == [cur EXCEPT ![q] = rec]
           in == {p \in Curators : InLine(cur[p])}
           hold == {p \in Curators : Holding(cur[p])}
<1>1. new[q] = rec /\ \A p \in Curators \ {q} : new[p] = cur[p]
  OBVIOUS
<1> HIDE DEF new
<1>2. {p \in Curators : InLine(new[p])} = in \cup {q} /\ q \in Curators \ in
  BY <1>1
<1>3. {p \in Curators : Holding(new[p])} = hold
  BY <1>1, HoldingIsInLine
<1>4. ChainInv(Curators, tail, in, hold)
  BY DEF LineInv
<1> HIDE DEF in, hold
<1>5. ChainInv(Curators, Append(tail, q), in \cup {q}, hold)
  BY <1>2, <1>4, ChainJoins
<1> QED BY <1>2, <1>3, <1>5 DEF LineInv, new

LEMMA LineLeaves ==
    ASSUME NEW tail, NEW cur \in [Curators -> CuratorRec], LineInv(tail, cur),
           NEW q \in Curators, NEW rec \in CuratorRec,
           Len(tail) > 0, tail[1] = q, ~InLine(rec)
    PROVE  LineInv(Tail(tail), [cur EXCEPT ![q] = rec])
<1> DEFINE new == [cur EXCEPT ![q] = rec]
           in == {p \in Curators : InLine(cur[p])}
           hold == {p \in Curators : Holding(cur[p])}
<1>1. new[q] = rec /\ \A p \in Curators \ {q} : new[p] = cur[p]
  OBVIOUS
<1> HIDE DEF new
<1>2. {p \in Curators : InLine(new[p])} = in \ {q}
  BY <1>1
<1>3. ChainInv(Curators, tail, in, hold)
  BY DEF LineInv
<1>4. \A p \in hold : p = q
  BY <1>3 DEF ChainInv
<1>5. {p \in Curators : Holding(new[p])} = {}
  BY <1>1, <1>4, HoldingIsInLine
<1> HIDE DEF in, hold
<1>6. ChainInv(Curators, Tail(tail), in \ {q}, {})
  BY <1>3, ChainLeaves
<1> QED BY <1>2, <1>5, <1>6 DEF LineInv, new

LEMMA LineHead ==
    ASSUME LineInv(mutationTail, curator), NEW q \in Curators, InLine(curator[q]),
           MyTurn(q) \/ Holding(curator[q])
    PROVE  Len(mutationTail) > 0 /\ mutationTail[1] = q
<1>1. Head(mutationTail) = q \/ q \in {p \in Curators : Holding(curator[p])}
  BY DEF MyTurn
<1>2. q \in {p \in Curators : InLine(curator[p])}
  OBVIOUS
<1> QED BY <1>1, <1>2, ChainHead DEF LineInv

-----------------------------------------------------------------------------
(* The steps of a request.                                                   *)

\* What a step of q may do to it and to the chain.
CuratorStep(q) ==
    \E rec \in CuratorRec :
       /\ curator' = [curator EXCEPT ![q] = rec]
       /\ CuratorOK(rec)
       /\ \/ /\ UNCHANGED mutationTail
             /\ InLine(rec) <=> InLine(curator[q])
             /\ Holding(rec) => Holding(curator[q]) \/ MyTurn(q)
          \/ /\ mutationTail' = Append(mutationTail, q)
             /\ ~InLine(curator[q]) /\ InLine(rec) /\ ~Holding(rec)
          \/ /\ mutationTail' = Tail(mutationTail)
             /\ InLine(curator[q]) /\ ~InLine(rec)
             /\ Holding(curator[q]) \/ MyTurn(q)
       /\ inFlight' \subseteq inFlight \cup {q}
       /\ q \in inFlight' => rec.pc = "done" /\ rec.ask \in Asks
       /\ strayed' = strayed
       /\ \/ dataset' = dataset /\ SeesNow(rec, dataset, strayed)
          \/ dataset' \in [Fields -> Values] /\ Holding(curator[q]) /\ rec.pc = "read back"

LEMMA CuratorStepIs ==
    ASSUME CurationInv, NEW q \in Curators, CuratorStep(q)
    PROVE  CurationInv'
<1>1. PICK rec \in CuratorRec :
       /\ curator' = [curator EXCEPT ![q] = rec]
       /\ CuratorOK(rec)
       /\ \/ /\ UNCHANGED mutationTail
             /\ InLine(rec) <=> InLine(curator[q])
             /\ Holding(rec) => Holding(curator[q]) \/ MyTurn(q)
          \/ /\ mutationTail' = Append(mutationTail, q)
             /\ ~InLine(curator[q]) /\ InLine(rec) /\ ~Holding(rec)
          \/ /\ mutationTail' = Tail(mutationTail)
             /\ InLine(curator[q]) /\ ~InLine(rec)
             /\ Holding(curator[q]) \/ MyTurn(q)
       /\ inFlight' \subseteq inFlight \cup {q}
       /\ q \in inFlight' => rec.pc = "done" /\ rec.ask \in Asks
       /\ strayed' = strayed
       /\ \/ dataset' = dataset /\ SeesNow(rec, dataset, strayed)
          \/ dataset' \in [Fields -> Values] /\ Holding(curator[q]) /\ rec.pc = "read back"
  BY DEF CuratorStep
<1>2. curator \in [Curators -> CuratorRec] /\ LineInv(mutationTail, curator)
  BY DEF CurationInv
<1>3. Holding(curator[q]) => InLine(curator[q])
  BY HoldingIsInLine
<1>4. InLine(curator[q]) /\ (Holding(curator[q]) \/ MyTurn(q)) => Len(mutationTail) > 0 /\ mutationTail[1] = q
  BY <1>2, LineHead
<1>5. Holding(rec) => InLine(rec)
  BY HoldingIsInLine
<1>6. LineInv(mutationTail', curator')
  <2>1. CASE /\ UNCHANGED mutationTail
             /\ InLine(rec) <=> InLine(curator[q])
             /\ Holding(rec) => Holding(curator[q]) \/ MyTurn(q)
    <3>1. Holding(rec) => Len(mutationTail) > 0 /\ mutationTail[1] = q
      BY <1>4, <1>5, <2>1
    <3> QED BY <1>1, <1>2, <2>1, <3>1, LineKeeps
  <2>2. CASE /\ mutationTail' = Append(mutationTail, q)
             /\ ~InLine(curator[q]) /\ InLine(rec) /\ ~Holding(rec)
    BY <1>1, <1>2, <2>2, LineJoins
  <2>3. CASE /\ mutationTail' = Tail(mutationTail)
             /\ InLine(curator[q]) /\ ~InLine(rec)
             /\ Holding(curator[q]) \/ MyTurn(q)
    BY <1>1, <1>2, <1>4, <2>3, LineLeaves
  <2> QED BY <1>1, <2>1, <2>2, <2>3
<1>7. curator'[q] = rec /\ \A p \in Curators \ {q} : curator'[p] = curator[p]
  BY <1>1, <1>2
<1>8. \A p \in Curators : CuratorOK(curator'[p])
  BY <1>1, <1>7 DEF CurationInv
<1>9. inFlight' \subseteq {p \in Curators : curator'[p].pc = "done" /\ curator'[p].ask \in Asks}
  BY <1>1, <1>7 DEF CurationInv
<1>10. \A p \in Curators : SeesNow(curator'[p], dataset', strayed')
  <2>1. CASE dataset' = dataset /\ SeesNow(rec, dataset, strayed)
    BY <1>1, <1>7, <2>1 DEF CurationInv
  <2>2. CASE dataset' \in [Fields -> Values] /\ Holding(curator[q]) /\ rec.pc = "read back"
    <3>1. ASSUME NEW p \in Curators, Holding(curator[p]) PROVE mutationTail[1] = p
      BY <1>2, <3>1, LineHead, HoldingIsInLine
    <3>2. ASSUME NEW p \in Curators \ {q} PROVE ~Holding(curator[p])
      BY <2>2, <3>1
    <3>3. SeesNow(rec, dataset', strayed')
      BY <2>2 DEF SeesNow
    <3>4. ASSUME NEW p \in Curators \ {q} PROVE SeesNow(curator[p], dataset', strayed')
      BY <3>2 DEF SeesNow, Holding, HoldPcs
    <3> QED BY <1>7, <3>3, <3>4
  <2> QED BY <1>1, <2>1, <2>2
<1>11. dataset' \in [Fields -> Values] /\ strayed' \in BOOLEAN
  BY <1>1 DEF CurationInv
<1>12. curator' \in [Curators -> CuratorRec]
  BY <1>1, <1>2
<1> QED BY <1>6, <1>8, <1>9, <1>10, <1>11, <1>12 DEF CurationInv

\* The answer to a request.
LEMMA AnsweredIs ==
    ASSUME CurationInv, NEW q \in Curators, curator[q].ask \in Asks,
           NEW status \in {"error", "unchanged", "conflict"},
           Answered(q, status), curator[q].pc \in LinePcs,
           curator[q].ask.kind = "edit" => Holding(curator[q]) \/ MyTurn(q),
           inFlight' \subseteq inFlight \cup {q}, strayed' = strayed, dataset' = dataset
    PROVE  CuratorStep(q)
<1> DEFINE rec == [curator[q] EXCEPT !.pc = "done", !.status = status]
<1>1. curator[q] \in CuratorRec /\ CuratorOK(curator[q])
  BY DEF CurationInv
<1>2. /\ rec \in CuratorRec /\ rec.pc = "done" /\ rec.status = status /\ rec.ask = curator[q].ask
      /\ rec.changed = curator[q].changed /\ rec.audited = curator[q].audited
  BY <1>1 DEF CuratorRec
<1>3. curator' = [curator EXCEPT ![q] = rec]
  BY DEF Answered
<1> HIDE DEF rec
<1>4. CuratorOK(rec) /\ ~InLine(rec) /\ ~Holding(rec) /\ SeesNow(rec, dataset, strayed)
  BY <1>1, <1>2 DEF CuratorOK, InLine, Holding, LinePcs, HoldPcs, SeesNow
<1>5. CASE curator[q].ask.kind = "edit"
  <2>1. mutationTail' = Tail(mutationTail) /\ InLine(curator[q])
    BY <1>5 DEF Answered, Frees, InLine
  <2> QED BY <1>2, <1>3, <1>4, <1>5, <2>1 DEF CuratorStep
<1>6. CASE curator[q].ask.kind # "edit"
  <2>1. UNCHANGED mutationTail /\ ~InLine(curator[q])
    BY <1>6 DEF Answered, Frees, InLine
  <2> QED BY <1>2, <1>3, <1>4, <2>1 DEF CuratorStep
<1> QED BY <1>5, <1>6

LEMMA AskChangeIs ==
    ASSUME CurationInv, NEW q \in Curators, AskChange(q)
    PROVE  CuratorStep(q)
<1>1. /\ curator[q] \in CuratorRec /\ CuratorOK(curator[q]) /\ curator[q].pc = "idle" /\ inFlight' = inFlight
      /\ dataset' = dataset /\ strayed' = strayed
  BY DEF CurationInv, AskChange, registryVars
<1>2. ~InLine(curator[q]) /\ q \notin inFlight
  BY <1>1 DEF InLine, LinePcs, CurationInv
<1>3. PICK ask \in Asks :
          \/ /\ ask.kind = "edit"
             /\ curator' = [curator EXCEPT ![q].pc = "line", ![q].ask = ask]
             /\ mutationTail' = Append(mutationTail, q)
          \/ /\ ask.kind = "place"
             /\ curator' = [curator EXCEPT ![q].ask = ask,
                              ![q].pc = IF bound THEN "send" ELSE "done",
                              ![q].status = IF bound THEN "none" ELSE "unbound"]
             /\ UNCHANGED mutationTail
          \/ /\ ask.kind = "run"
             /\ curator' = [curator EXCEPT ![q].pc = "send", ![q].ask = ask]
             /\ UNCHANGED mutationTail
  BY DEF AskChange
<1> DEFINE Says(rec, pc, status) ==
              /\ rec \in CuratorRec /\ rec.ask = ask /\ rec.pc = pc /\ rec.status = status
              /\ rec.changed = curator[q].changed /\ rec.audited = curator[q].audited
<1>4. CASE /\ ask.kind = "edit"
           /\ curator' = [curator EXCEPT ![q].pc = "line", ![q].ask = ask]
           /\ mutationTail' = Append(mutationTail, q)
  <2> DEFINE rec == [curator[q] EXCEPT !.pc = "line", !.ask = ask]
  <2>1. Says(rec, "line", curator[q].status) /\ curator' = [curator EXCEPT ![q] = rec]
    BY <1>1, <1>4 DEF CuratorRec, LinePcs
  <2> HIDE DEF rec
  <2>2. CuratorOK(rec) /\ InLine(rec) /\ ~Holding(rec) /\ SeesNow(rec, dataset, strayed)
    BY <1>1, <1>4, <2>1 DEF CuratorOK, InLine, Holding, LinePcs, HoldPcs, SeesNow
  <2> QED BY <1>1, <1>2, <1>4, <2>1, <2>2 DEF CuratorStep
<1>5. CASE /\ ask.kind = "place"
           /\ curator' = [curator EXCEPT ![q].ask = ask,
                              ![q].pc = IF bound THEN "send" ELSE "done",
                              ![q].status = IF bound THEN "none" ELSE "unbound"]
           /\ UNCHANGED mutationTail
  <2> DEFINE pc == IF bound THEN "send" ELSE "done"
             status == IF bound THEN "none" ELSE "unbound"
             rec == [curator[q] EXCEPT !.ask = ask, !.pc = pc, !.status = status]
  <2>1. pc \in {"send", "done"} /\ status \in {"none", "unbound"}
    OBVIOUS
  <2>2. curator' = [curator EXCEPT ![q] = rec]
    BY <1>5
  <2> HIDE DEF pc, status
  <2>3. Says(rec, pc, status)
    BY <1>1, <2>1 DEF CuratorRec, LinePcs
  <2> HIDE DEF rec
  <2>4. CuratorOK(rec) /\ ~InLine(rec) /\ ~Holding(rec) /\ SeesNow(rec, dataset, strayed)
    BY <1>1, <1>5, <2>1, <2>3 DEF CuratorOK, InLine, Holding, LinePcs, HoldPcs, SeesNow
  <2> QED BY <1>1, <1>2, <1>5, <2>2, <2>3, <2>4 DEF CuratorStep
<1>6. CASE /\ ask.kind = "run"
           /\ curator' = [curator EXCEPT ![q].pc = "send", ![q].ask = ask]
           /\ UNCHANGED mutationTail
  <2> DEFINE rec == [curator[q] EXCEPT !.pc = "send", !.ask = ask]
  <2>1. Says(rec, "send", curator[q].status) /\ curator' = [curator EXCEPT ![q] = rec]
    BY <1>1, <1>6 DEF CuratorRec, LinePcs
  <2> HIDE DEF rec
  <2>2. CuratorOK(rec) /\ ~InLine(rec) /\ ~Holding(rec) /\ SeesNow(rec, dataset, strayed)
    BY <1>1, <1>6, <2>1 DEF CuratorOK, InLine, Holding, LinePcs, HoldPcs, SeesNow
  <2> QED BY <1>1, <1>2, <1>6, <2>1, <2>2 DEF CuratorStep
<1> QED BY <1>3, <1>4, <1>5, <1>6
\* A step that only goes on, of a request that stays where it is in the chain.
LEMMA MovesIs ==
    ASSUME CurationInv, NEW q \in Curators, curator[q].ask \in Asks, NEW rec \in CuratorRec,
           curator' = [curator EXCEPT ![q] = rec], UNCHANGED mutationTail,
           inFlight' = inFlight, strayed' = strayed, dataset' = dataset,
           SeesNow(rec, dataset, strayed), CuratorOK(rec), rec.ask = curator[q].ask,
           rec.pc \in HoldPcs, curator[q].pc \in LinePcs,
           curator[q].ask.kind = "edit" => Holding(curator[q]) \/ MyTurn(q)
    PROVE  CuratorStep(q)
<1>1. HoldPcs \subseteq LinePcs
  BY DEF HoldPcs, LinePcs
<1>2. InLine(rec) <=> InLine(curator[q])
  BY <1>1 DEF InLine
<1>3. Holding(rec) => Holding(curator[q]) \/ MyTurn(q)
  BY DEF Holding
<1>4. q \notin inFlight
  BY DEF CurationInv, LinePcs
<1> QED BY <1>2, <1>3, <1>4 DEF CuratorStep

LEMMA ReadDatasetIs ==
    ASSUME CurationInv, NEW q \in Curators, ReadDataset(q)
    PROVE  CuratorStep(q)
<1>1. /\ curator[q] \in CuratorRec /\ CuratorOK(curator[q]) /\ curator[q].pc = "line"
      /\ curator[q].ask \in Asks /\ inFlight' = inFlight /\ strayed' = strayed /\ dataset' = dataset
      /\ SeesNow(curator[q], dataset, strayed) /\ MyTurn(q) /\ dataset \in [Fields -> Values]
  BY DEF CurationInv, ReadDataset, registryVars, Asked, CuratorOK
<1>2. CASE Answered(q, "error")
  BY <1>1, <1>2, AnsweredIs DEF LinePcs
<1>3. CASE /\ curator' = [curator EXCEPT ![q].pc = "compare", ![q].seen = dataset]
           /\ UNCHANGED mutationTail
  <2> DEFINE rec == [curator[q] EXCEPT !.pc = "compare", !.seen = dataset]
  <2>1. /\ rec \in CuratorRec /\ rec.pc = "compare" /\ rec.seen = dataset /\ rec.ask = curator[q].ask
        /\ rec.status = curator[q].status /\ rec.changed = curator[q].changed
        /\ rec.audited = curator[q].audited /\ curator' = [curator EXCEPT ![q] = rec]
    BY <1>1, <1>3 DEF CuratorRec, LinePcs
  <2> HIDE DEF rec
  <2>2. CuratorOK(rec) /\ SeesNow(rec, dataset, strayed)
    BY <1>1, <2>1 DEF CuratorOK, SeesNow
  <2> QED BY <1>1, <1>3, <2>1, <2>2, MovesIs DEF HoldPcs, LinePcs
<1> QED BY <1>2, <1>3 DEF ReadDataset

LEMMA CompareIs ==
    ASSUME CurationInv, NEW q \in Curators, Compare(q)
    PROVE  CuratorStep(q)
<1>1. /\ curator[q] \in CuratorRec /\ CuratorOK(curator[q]) /\ curator[q].pc = "compare"
      /\ curator[q].ask \in Asks /\ inFlight' = inFlight /\ strayed' = strayed /\ dataset' = dataset
      /\ SeesNow(curator[q], dataset, strayed) /\ Holding(curator[q])
  BY DEF CurationInv, Compare, registryVars, Asked, CuratorOK, Holding, HoldPcs
<1>2. CASE Answered(q, "unchanged")
  BY <1>1, <1>2, AnsweredIs DEF LinePcs
<1>3. CASE GoesTo(q, "send") /\ UNCHANGED mutationTail
  <2> DEFINE rec == [curator[q] EXCEPT !.pc = "send"]
  <2>1. /\ rec \in CuratorRec /\ rec.pc = "send" /\ rec.seen = curator[q].seen /\ rec.ask = curator[q].ask
        /\ rec.status = curator[q].status /\ rec.changed = curator[q].changed
        /\ rec.audited = curator[q].audited /\ curator' = [curator EXCEPT ![q] = rec]
    BY <1>1, <1>3 DEF CuratorRec, LinePcs, GoesTo
  <2> HIDE DEF rec
  <2>2. CuratorOK(rec) /\ SeesNow(rec, dataset, strayed)
    BY <1>1, <2>1 DEF CuratorOK, SeesNow
  <2> QED BY <1>1, <1>3, <2>1, <2>2, MovesIs DEF HoldPcs, LinePcs
<1> QED BY <1>2, <1>3 DEF Compare

LEMMA ReadBackIs ==
    ASSUME CurationInv, NEW q \in Curators, ReadBack(q)
    PROVE  CuratorStep(q)
<1>1. /\ curator[q] \in CuratorRec /\ CuratorOK(curator[q]) /\ curator[q].pc = "read back"
      /\ curator[q].ask \in Asks /\ inFlight' = inFlight /\ strayed' = strayed /\ dataset' = dataset
      /\ SeesNow(curator[q], dataset, strayed) /\ Holding(curator[q])
  BY DEF CurationInv, ReadBack, registryVars, Asked, CuratorOK, Holding, HoldPcs
<1>2. CASE Answered(q, "error")
  BY <1>1, <1>2, AnsweredIs DEF LinePcs
<1>3. CASE GoesTo(q, "audit") /\ UNCHANGED mutationTail
  <2> DEFINE rec == [curator[q] EXCEPT !.pc = "audit"]
  <2>1. /\ rec \in CuratorRec /\ rec.pc = "audit" /\ rec.ask = curator[q].ask
        /\ rec.status = curator[q].status /\ (rec.changed <=> curator[q].changed)
        /\ (rec.audited <=> curator[q].audited) /\ curator' = [curator EXCEPT ![q] = rec]
    BY <1>1, <1>3 DEF CuratorRec, LinePcs, GoesTo
  <2> HIDE DEF rec
  <2>2. CuratorOK(rec) /\ SeesNow(rec, dataset, strayed)
    BY <1>1, <2>1 DEF CuratorOK, SeesNow
  <2> QED BY <1>1, <1>3, <2>1, <2>2, MovesIs DEF HoldPcs, LinePcs
<1> QED BY <1>2, <1>3 DEF ReadBack
LEMMA AuditIs ==
    ASSUME CurationInv, NEW q \in Curators, Audit(q)
    PROVE  CuratorStep(q)
<1> DEFINE rec == [curator[q] EXCEPT !.pc = "done", !.status = "ok", !.audited = TRUE]
<1>1. /\ curator[q] \in CuratorRec /\ CuratorOK(curator[q]) /\ curator[q].pc = "audit"
      /\ curator[q].ask \in Asks /\ inFlight' = inFlight /\ strayed' = strayed /\ dataset' = dataset
  BY DEF CurationInv, Audit, registryVars, CuratorOK
<1>2. /\ rec \in CuratorRec /\ rec.pc = "done" /\ rec.ask = curator[q].ask
      /\ (rec.changed <=> curator[q].changed) /\ rec.audited
      /\ curator' = [curator EXCEPT ![q] = rec]
  BY <1>1 DEF CuratorRec, Audit
<1> HIDE DEF rec
<1>3. CuratorOK(rec) /\ SeesNow(rec, dataset, strayed) /\ ~InLine(rec) /\ ~Holding(rec)
  BY <1>1, <1>2 DEF CuratorOK, SeesNow, InLine, Holding, LinePcs, HoldPcs
<1>4. CASE curator[q].ask.kind = "edit"
  <2>1. mutationTail' = Tail(mutationTail) /\ InLine(curator[q]) /\ Holding(curator[q])
    BY <1>1, <1>4 DEF Audit, Frees, InLine, Holding, LinePcs, HoldPcs
  <2> QED BY <1>1, <1>2, <1>3, <2>1 DEF CuratorStep
<1>5. CASE curator[q].ask.kind # "edit"
  <2>1. UNCHANGED mutationTail /\ ~InLine(curator[q])
    BY <1>5 DEF Audit, Frees, InLine
  <2> QED BY <1>1, <1>2, <1>3, <2>1 DEF CuratorStep
<1> QED BY <1>4, <1>5

\* What the Registry does to the dataset.
LEMMA AppliesIs ==
    ASSUME CurationInv, NEW ask \in Asks, Applies(ask)
    PROVE  dataset' \in [Fields -> Values] /\ (ask.kind # "edit" => dataset' = dataset)
<1>1. dataset \in [Fields -> Values]
  BY DEF CurationInv
<1>2. CASE ask.kind = "edit" /\ ask.fields \in Edits
  BY <1>1, <1>2, PatchedType DEF Applies
<1>3. CASE ask.kind = "place"
  BY <1>1, <1>3 DEF Applies
<1>4. CASE ask.kind = "run"
  BY <1>1, <1>4 DEF Applies
<1> QED BY <1>2, <1>3, <1>4, AskKinds

LEMMA SendIs ==
    ASSUME CurationInv, NEW q \in Curators, Send(q)
    PROVE  CuratorStep(q)
<1> DEFINE ask == curator[q].ask
<1>1. /\ curator[q] \in CuratorRec /\ CuratorOK(curator[q]) /\ curator[q].pc = "send"
      /\ ask \in Asks /\ strayed' = strayed /\ q \notin inFlight
  BY DEF CurationInv, Send, CuratorOK
<1>2. ask.kind = "edit" => Holding(curator[q])
  BY <1>1 DEF Holding, HoldPcs
<1>3. CASE /\ ~Refuses(ask) /\ Applies(ask)
           /\ curator' = [curator EXCEPT ![q].changed = TRUE,
                 ![q].pc = IF ask.kind = "edit" THEN "read back" ELSE "audit"]
           /\ UNCHANGED <<mutationTail, inFlight>>
  <2> DEFINE pc == IF ask.kind = "edit" THEN "read back" ELSE "audit"
             rec == [curator[q] EXCEPT !.changed = TRUE, !.pc = pc]
  <2>1. pc \in {"read back", "audit"} /\ (ask.kind = "edit" => pc = "read back")
    OBVIOUS
  <2>2. curator' = [curator EXCEPT ![q] = rec]
    BY <1>3
  <2> HIDE DEF pc
  <2>3. /\ rec \in CuratorRec /\ rec.pc = pc /\ rec.ask = ask /\ rec.changed
        /\ (rec.audited <=> curator[q].audited) /\ rec.status = curator[q].status
    BY <1>1, <2>1 DEF CuratorRec, LinePcs
  <2> HIDE DEF rec
  <2>4. CuratorOK(rec) /\ SeesNow(rec, dataset, strayed)
    BY <1>1, <2>1, <2>3 DEF CuratorOK, SeesNow
  <2>5. (InLine(rec) <=> InLine(curator[q])) /\ (Holding(rec) => Holding(curator[q]))
    BY <1>1, <2>1, <2>3 DEF InLine, Holding, LinePcs, HoldPcs
  <2>6. dataset' \in [Fields -> Values] /\ (ask.kind # "edit" => dataset' = dataset)
    BY <1>1, <1>3, AppliesIs
  <2> QED BY <1>1, <1>2, <1>3, <2>1, <2>2, <2>3, <2>4, <2>5, <2>6 DEF CuratorStep
<1>4. CASE Refuses(ask) /\ Answered(q, "conflict") /\ UNCHANGED <<dataset, places, inFlight>>
  BY <1>1, <1>2, <1>4, AnsweredIs DEF LinePcs
<1>5. CASE /\ Answered(q, "error")
           /\ \E late \in SUBSET {q} : inFlight' = inFlight \cup late
           /\ UNCHANGED <<dataset, places>>
  BY <1>1, <1>2, <1>5, AnsweredIs DEF LinePcs
<1> QED BY <1>3, <1>4, <1>5 DEF Send
LEMMA TakesEffectIs ==
    ASSUME CurationInv, NEW q \in Curators, TakesEffect(q)
    PROVE  CurationInv'
<1> DEFINE ask == curator[q].ask
<1>1. /\ ask \in Asks /\ curator' = curator /\ mutationTail' = mutationTail
      /\ inFlight' \subseteq inFlight
  BY DEF CurationInv, TakesEffect
<1>2. CASE dataset' = dataset /\ strayed' = strayed
  BY <1>1, <1>2 DEF CurationInv
<1>3. CASE Applies(ask) /\ strayed' = TRUE
  <2>1. dataset' \in [Fields -> Values]
    BY <1>1, <1>3, AppliesIs
  <2>2. \A p \in Curators : SeesNow(curator[p], dataset', strayed')
    BY <1>3 DEF SeesNow
  <2> QED BY <1>1, <1>3, <2>1, <2>2 DEF CurationInv
<1> QED BY <1>2, <1>3 DEF TakesEffect

-----------------------------------------------------------------------------
(* Events.                                                                   *)

Delivery == [pc : {"idle", "ingest", "audit", "done"}, event : Events \cup {CHOOSE e \in Events : TRUE}]

\* A delivery about to be audited found the event new, and is the only one.
EventsInv ==
    /\ producer \in [Producers -> Delivery] /\ ingests \in [Events -> Nat]
    /\ \A p \in Producers : producer[p].pc # "idle" => producer[p].event \in Events
    /\ \A p \in Producers : producer[p].pc = "audit" =>
          producer[p].event \in stored /\ ingests[producer[p].event] = 0
    /\ \A p, r \in Producers :
          producer[p].pc = "audit" /\ producer[r].pc = "audit" /\ producer[p].event = producer[r].event
             => p = r
    /\ \A e \in Events :
          /\ ingests[e] <= 1
          /\ ingests[e] = 1 => e \in stored
          /\ e \in stored \ unheard =>
                ingests[e] = 1 \/ \E p \in Producers : producer[p].pc = "audit" /\ producer[p].event = e

LEMMA EventsStart ==
    ASSUME LineageInit
    PROVE  EventsInv
<1>1. /\ producer = [p \in Producers |-> [pc |-> "idle", event |-> CHOOSE e \in Events : TRUE]]
      /\ stored = {} /\ ingests = [e \in Events |-> 0]
  BY DEF LineageInit
<1>2. producer \in [Producers -> Delivery] /\ \A p \in Producers : producer[p].pc = "idle"
  BY <1>1 DEF Delivery
<1> QED BY <1>1, <1>2 DEF EventsInv

LEMMA DeliverKeeps ==
    ASSUME EventsInv, NEW p \in Producers, NEW e \in Events, Deliver(p, e)
    PROVE  EventsInv'
<1>1. /\ producer[p].pc = "idle" /\ stored' = stored /\ unheard' = unheard /\ ingests' = ingests
      /\ producer' = [producer EXCEPT ![p] = [pc |-> "ingest", event |-> e]]
  BY DEF Deliver
<1>2. producer'[p].pc = "ingest" /\ producer'[p].event = e /\ \A r \in Producers \ {p} : producer'[r] = producer[r]
  BY <1>1 DEF EventsInv
<1>3. producer' \in [Producers -> Delivery]
  BY <1>1 DEF EventsInv, Delivery
<1> QED BY <1>1, <1>2, <1>3 DEF EventsInv

LEMMA IngestKeeps ==
    ASSUME EventsInv, NEW p \in Producers, Ingest(p)
    PROVE  EventsInv'
<1> DEFINE e == producer[p].event
<1>1. e \in Events /\ producer[p].pc = "ingest" /\ ingests' = ingests
  BY DEF EventsInv, Ingest
<1>2. PICK pc \in {"audit", "done"} :
        /\ producer' = [producer EXCEPT ![p].pc = pc]
        /\ pc = "audit" => stored' = stored \cup {e} /\ e \notin stored /\ unheard' = unheard
        /\ pc = "done" => \/ stored' = stored /\ unheard' = unheard
                          \/ /\ stored' = stored \cup {e}
                             /\ e \in stored => unheard' = unheard
                             /\ e \notin stored => unheard' = unheard \cup {e}
  <2>1. CASE /\ stored' = stored \cup {e}
             /\ producer' = [producer EXCEPT ![p].pc = IF e \in stored THEN "done" ELSE "audit"]
             /\ UNCHANGED unheard
    BY <2>1
  <2>2. CASE /\ producer' = [producer EXCEPT ![p].pc = "done"]
             /\ \/ /\ stored' = stored \cup {e}
                   /\ unheard' = IF e \in stored THEN unheard ELSE unheard \cup {e}
                \/ UNCHANGED <<stored, unheard>>
    BY <2>2
  <2> QED BY <2>1, <2>2 DEF Ingest
<1>3. /\ producer'[p].pc = pc /\ producer'[p].event = e
      /\ \A r \in Producers \ {p} : producer'[r] = producer[r]
      /\ producer' \in [Producers -> Delivery]
  BY <1>1, <1>2 DEF EventsInv, Delivery
<1>4. \A r \in Producers : producer'[r].pc = "audit" =>
          producer'[r].event \in stored' /\ ingests'[producer'[r].event] = 0
  BY <1>1, <1>2, <1>3 DEF EventsInv
<1>5. \A r, s \in Producers :
          producer'[r].pc = "audit" /\ producer'[s].pc = "audit" /\ producer'[r].event = producer'[s].event
             => r = s
  BY <1>1, <1>2, <1>3 DEF EventsInv
<1>6. ASSUME NEW d \in Events
      PROVE  /\ ingests'[d] <= 1
             /\ ingests'[d] = 1 => d \in stored'
             /\ d \in stored' \ unheard' =>
                ingests'[d] = 1 \/ \E r \in Producers : producer'[r].pc = "audit" /\ producer'[r].event = d
  BY <1>1, <1>2, <1>3 DEF EventsInv
<1> QED BY <1>1, <1>3, <1>4, <1>5, <1>6 DEF EventsInv

LEMMA RecordUseKeeps ==
    ASSUME EventsInv, NEW p \in Producers, RecordUse(p)
    PROVE  EventsInv'
<1> DEFINE e == producer[p].event
<1>1. e \in Events /\ producer[p].pc = "audit" /\ stored' = stored /\ e \in stored /\ ingests[e] = 0
  BY DEF EventsInv, RecordUse
<1>2. \/ ingests' = [ingests EXCEPT ![e] = 1] /\ unheard' = unheard
      \/ ingests' = ingests /\ unheard' = unheard \cup {e}
  BY <1>1 DEF RecordUse, EventsInv
<1>3. /\ producer'[p].pc = "done" /\ producer'[p].event = e
      /\ \A r \in Producers \ {p} : producer'[r] = producer[r]
      /\ producer' \in [Producers -> Delivery]
  BY <1>1 DEF EventsInv, Delivery, RecordUse
<1>4. \A r \in Producers \ {p} : producer[r].pc = "audit" => producer[r].event # e
  BY <1>1 DEF EventsInv
<1>5. ingests' \in [Events -> Nat] /\ \A d \in Events \ {e} : ingests'[d] = ingests[d]
  BY <1>2 DEF EventsInv
<1>6. ingests'[e] \in {0, 1} /\ (ingests'[e] = 1 \/ e \in unheard')
  BY <1>1, <1>2 DEF EventsInv
<1>7. \A r \in Producers : producer'[r].pc = "audit" =>
          producer'[r].event \in stored' /\ ingests'[producer'[r].event] = 0
  BY <1>1, <1>3, <1>4, <1>5 DEF EventsInv
<1>8. ASSUME NEW d \in Events
      PROVE  /\ ingests'[d] <= 1
             /\ ingests'[d] = 1 => d \in stored'
             /\ d \in stored' \ unheard' =>
                ingests'[d] = 1 \/ \E r \in Producers : producer'[r].pc = "audit" /\ producer'[r].event = d
  <2>1. CASE d = e
    BY <1>1, <1>6, <2>1
  <2>2. CASE d # e
    BY <1>1, <1>2, <1>3, <1>5, <2>2 DEF EventsInv
  <2> QED BY <2>1, <2>2
<1>9. \A r \in Producers : producer'[r].pc # "idle" => producer'[r].event \in Events
  BY <1>1, <1>3 DEF EventsInv
<1>10. \A r, t \in Producers :
          producer'[r].pc = "audit" /\ producer'[t].pc = "audit" /\ producer'[r].event = producer'[t].event
             => r = t
  BY <1>3 DEF EventsInv
<1> QED BY <1>3, <1>5, <1>7, <1>8, <1>9, <1>10 DEF EventsInv

-----------------------------------------------------------------------------
(* The theorems.                                                             *)

LineageInv == CurationInv /\ EventsInv

LEMMA LineageStart ==
    ASSUME LineageInit
    PROVE  LineageInv
<1>1. /\ dataset \in [Fields -> Values] /\ strayed = FALSE /\ inFlight = {} /\ mutationTail = <<>>
      /\ curator = [q \in Curators |-> [pc |-> "idle", ask |-> NoAsk, seen |-> dataset,
                       changed |-> FALSE, audited |-> FALSE, status |-> "none"]]
  BY DEF LineageInit
<1>2. curator \in [Curators -> CuratorRec]
  BY <1>1 DEF CuratorRec
<1>3. \A q \in Curators : /\ curator[q].pc = "idle" /\ ~curator[q].audited
                          /\ curator[q].status = "none"
  BY <1>1
<1>4. LineInv(mutationTail, curator)
  <2>1. {q \in Curators : InLine(curator[q])} = {} /\ {q \in Curators : Holding(curator[q])} = {}
    BY <1>3 DEF InLine, Holding, LinePcs, HoldPcs
  <2> QED BY <1>1, <2>1, ChainStarts DEF LineInv
<1>5. \A q \in Curators : CuratorOK(curator[q]) /\ SeesNow(curator[q], dataset, strayed)
  BY <1>3 DEF CuratorOK, SeesNow
<1> QED BY <1>1, <1>2, <1>4, <1>5, EventsStart DEF LineageInv, CurationInv

LEMMA LineageStep ==
    ASSUME LineageInv, [LineageNext]_lineageVars
    PROVE  LineageInv'
<1>1. CurationInv /\ EventsInv
  BY DEF LineageInv
<1>2. ASSUME UNCHANGED registryVars, UNCHANGED mutationTail, UNCHANGED curator
      PROVE  CurationInv'
  BY <1>1, <1>2 DEF CurationInv, registryVars
<1>3. ASSUME UNCHANGED ingestVars
      PROVE  EventsInv'
  BY <1>1, <1>3 DEF EventsInv, ingestVars
<1>4. ASSUME NEW q \in Curators,
             \/ AskChange(q) \/ ReadDataset(q) \/ Compare(q) \/ Send(q) \/ ReadBack(q) \/ Audit(q)
             \/ TakesEffect(q)
      PROVE  LineageInv'
  <2>1. UNCHANGED ingestVars
    BY <1>4 DEF AskChange, ReadDataset, Compare, Send, ReadBack, Audit, TakesEffect
  <2>2. CASE TakesEffect(q)
    BY <1>1, <1>3, <2>1, <2>2, TakesEffectIs DEF LineageInv
  <2>3. CASE AskChange(q) \/ ReadDataset(q) \/ Compare(q) \/ Send(q) \/ ReadBack(q) \/ Audit(q)
    <3>1. CuratorStep(q)
      BY <1>1, <2>3, AskChangeIs, ReadDatasetIs, CompareIs, SendIs, ReadBackIs, AuditIs
    <3> QED BY <1>1, <1>3, <2>1, <3>1, CuratorStepIs DEF LineageInv
  <2> QED BY <1>4, <2>2, <2>3
<1>5. CASE Unbind
  <2>1. CurationInv' /\ UNCHANGED ingestVars
    BY <1>1, <1>5 DEF Unbind, CurationInv
  <2> QED BY <1>3, <2>1 DEF LineageInv
<1>6. ASSUME NEW p \in Producers, (\E e \in Events : Deliver(p, e)) \/ Ingest(p) \/ RecordUse(p)
      PROVE  LineageInv'
  <2>1. UNCHANGED registryVars /\ UNCHANGED mutationTail /\ UNCHANGED curator
    BY <1>6 DEF Deliver, Ingest, RecordUse
  <2>2. EventsInv'
    BY <1>1, <1>6, DeliverKeeps, IngestKeeps, RecordUseKeeps
  <2> QED BY <1>2, <2>1, <2>2 DEF LineageInv
<1>7. CASE UNCHANGED lineageVars
  BY <1>2, <1>3, <1>7 DEF LineageInv, lineageVars
<1> QED BY <1>4, <1>5, <1>6, <1>7 DEF LineageNext

THEOREM LineageInvHolds == LineageSpec => []LineageInv
<1>1. LineageInit => LineageInv
  BY LineageStart
<1>2. LineageInv /\ [LineageNext]_lineageVars => LineageInv'
  BY LineageStep
<1> QED BY <1>1, <1>2, PTL DEF LineageSpec

\* An edit of a dataset is compared with what it replaces: the lock of
\* withDatasetMutationLock is held by the request at the head of the chain of
\* promises, so that only a PATCH that was given up can come in between.
THEOREM EditsAreAlone == LineageSpec => []NoEditInBetween
<1>1. LineageInv => NoEditInBetween
  BY DEF LineageInv, CurationInv, SeesNow, NoEditInBetween, Asked
<1> QED BY <1>1, LineageInvHolds, PTL

\* The audit log says of the Registry what the Registry did: no change is audited
\* that was not made, and of an OpenLineage event that was stored there is one
\* entry, unless an answer was lost.
THEOREM AuditIsTrue == LineageSpec => []AuditFollowsRegistry
<1>1. LineageInv => AuditFollowsRegistry
  <2> SUFFICES ASSUME LineageInv PROVE AuditFollowsRegistry
    OBVIOUS
  <2>1. \A q \in Curators :
          /\ curator[q].audited => curator[q].changed
          /\ curator[q].status = "ok" => curator[q].audited
    BY DEF LineageInv, CurationInv, CuratorOK
  <2>2. \A e \in Events :
          /\ ingests[e] <= 1
          /\ ingests[e] = 1 => e \in stored
          /\ e \in stored \ unheard /\ (\A p \in Producers : producer[p].pc # "audit") => ingests[e] = 1
    BY DEF LineageInv, EventsInv
  <2> QED BY <2>1, <2>2 DEF AuditFollowsRegistry
<1> QED BY <1>1, LineageInvHolds, PTL
-----------------------------------------------------------------------------
(* Notes, tags, favourites, settings, scans and users: changes and their      *)
(* audit.  A request is followed by itself: its record, its intent, whether   *)
(* its change is in the database and whether its own event is.                *)

ReqFields == {"pc", "op", "at", "changed", "committed", "own", "status"}
Early == {"route", "select", "lock", "write"}
ReqPcs == {"idle", "own", "answered", "done"} \cup Early
Statuses == {"none", "ok", "error", "conflict", "missing"}

ReqType(rec) ==
    /\ DOMAIN rec = ReqFields
    /\ rec.pc \in ReqPcs /\ rec.status \in Statuses /\ rec.at \in Nat
    /\ rec.changed \in BOOLEAN /\ rec.committed \in BOOLEAN /\ rec.own \in BOOLEAN
    /\ rec.pc # "idle" => "kind" \in DOMAIN rec.op
    /\ rec.pc # "idle" /\ rec.op.kind # "scan" => rec.op \in Mutations

\* isIn: the change of the request is in the database; told: its own event is.
ReqOK(rec, intent, isIn, told) ==
    /\ ReqType(rec)
    /\ intent \in {"none", "pending", "success", "discarded"}
    /\ isIn \in BOOLEAN /\ told \in BOOLEAN
    /\ rec.pc = "idle" => intent = "none" /\ ~isIn
    /\ rec.pc \in {"idle"} \cup Early =>
          rec.changed /\ ~rec.committed /\ ~rec.own /\ ~told /\ rec.status = "none"
    /\ rec.pc \notin {"idle", "done"} => intent = "pending"
    /\ rec.pc = "route" /\ rec.op.kind # "scan" => ~isIn
    /\ rec.pc = "select" => ~isIn /\ rec.op.kind = "tag.update"
    /\ rec.pc \in {"lock", "write"} => ~isIn /\ rec.op.kind = "note"
    /\ rec.pc = "own" => rec.committed /\ isIn /\ rec.changed /\ ~rec.own
    /\ rec.pc = "answered" =>
          /\ rec.status # "none"
          /\ rec.status = "ok" /\ rec.changed => isIn
          /\ rec.status = "ok" /\ rec.op.kind = "users" => rec.committed
          /\ ~rec.changed => ~isIn
          /\ isIn => rec.status \in {"ok", "error"}
    /\ rec.committed => isIn
    /\ rec.own => told
    /\ told => isIn
    /\ intent = "success" => isIn
    /\ isIn => intent \in {"pending", "success"} \/ told \/ (rec.status = "error" /\ ~rec.committed)

\* The note and its lock.
Bodies == {NoText} \cup {op.body : op \in Mutations}
Tables == {"note", "setting", "pinned", "scans", "users", "tag", "on"}

NoteInv ==
    /\ DOMAIN content = Tables /\ content.note \in Bodies
    /\ notes \in Seq([body : Bodies, at : Nat]) /\ clock \in Nat
    /\ noteLock \in Requests \cup {NoText}
    /\ \A r \in Requests : request[r].pc = "write" <=> noteLock = r
    /\ \A r \in Requests : request[r].pc = "write" => request[r].op.body # content.note
    /\ NoteIsItsLastVersion

AuditInv ==
    /\ DOMAIN request = Requests /\ DOMAIN audit = Requests /\ did \subseteq Requests
    /\ \A r \in Requests : ReqOK(request[r], audit[r], r \in did, r \in dedicated)
    /\ NoteInv

\* A step of one request.
ReqMoves(r) ==
    \E rec :
       /\ request' = [request EXCEPT ![r] = rec]
       /\ DOMAIN audit' = Requests /\ \A q \in Requests \ {r} : audit'[q] = audit[q]
       /\ did' \cup {r} = did \cup {r} /\ dedicated' \cup {r} = dedicated \cup {r}
       /\ ReqOK(rec, audit'[r], r \in did', r \in dedicated')

AllReqsOK ==
    /\ DOMAIN request = Requests /\ DOMAIN audit = Requests /\ did \subseteq Requests
    /\ \A q \in Requests : ReqOK(request[q], audit[q], q \in did, q \in dedicated)

LEMMA ReqStep ==
    ASSUME AuditInv, NEW r \in Requests, ReqMoves(r)
    PROVE  AllReqsOK'
<1>1. PICK rec :
       /\ request' = [request EXCEPT ![r] = rec]
       /\ DOMAIN audit' = Requests /\ \A q \in Requests \ {r} : audit'[q] = audit[q]
       /\ did' \cup {r} = did \cup {r} /\ dedicated' \cup {r} = dedicated \cup {r}
       /\ ReqOK(rec, audit'[r], r \in did', r \in dedicated')
  BY DEF ReqMoves
<1>2. DOMAIN request' = Requests /\ request'[r] = rec /\ \A q \in Requests \ {r} : request'[q] = request[q]
  BY <1>1 DEF AuditInv
<1>3. ASSUME NEW q \in Requests
      PROVE  ReqOK(request'[q], audit'[q], q \in did', q \in dedicated')
  <2>1. CASE q = r
    BY <1>1, <1>2, <2>1
  <2>2. CASE q # r
    <3>1. (q \in did') = (q \in did) /\ (q \in dedicated') = (q \in dedicated)
      BY <1>1, <2>2
    <3> QED BY <1>1, <1>2, <2>2, <3>1 DEF AuditInv
  <2> QED BY <2>1, <2>2
<1>4. did' \subseteq Requests
  BY <1>1 DEF AuditInv
<1> QED BY <1>1, <1>2, <1>3, <1>4 DEF AllReqsOK

\* What becomes of a record that is answered.
LEMMA AnswersIs ==
    ASSUME NEW rec, DOMAIN rec = ReqFields, NEW pc, NEW status
    PROVE  LET new == [rec EXCEPT !.pc = pc, !.status = status]
           IN  /\ DOMAIN new = ReqFields /\ new.pc = pc /\ new.status = status
               /\ new.op = rec.op /\ new.at = rec.at /\ new.changed = rec.changed
               /\ new.committed = rec.committed /\ new.own = rec.own
BY DEF ReqFields

LEMMA UnchangingIs ==
    ASSUME NEW rec, DOMAIN rec = ReqFields
    PROVE  LET new == Unchanging(rec)
           IN  /\ DOMAIN new = ReqFields /\ new.pc = rec.pc /\ new.status = rec.status
               /\ new.op = rec.op /\ new.at = rec.at /\ new.changed = FALSE
               /\ new.committed = rec.committed /\ new.own = rec.own
BY DEF ReqFields, Unchanging

LEMMA MovedIs ==
    ASSUME NEW rec, DOMAIN rec = ReqFields, NEW pc
    PROVE  LET new == [rec EXCEPT !.pc = pc]
           IN  /\ DOMAIN new = ReqFields /\ new.pc = pc /\ new.status = rec.status
               /\ new.op = rec.op /\ new.at = rec.at /\ new.changed = rec.changed
               /\ new.committed = rec.committed /\ new.own = rec.own
BY DEF ReqFields
\* A step that leaves the intent of its request alone.
LEMMA ReqTells ==
    ASSUME AuditInv, NEW r \in Requests, NEW rec, Set(r, rec), UNCHANGED audit,
           did' \cup {r} = did \cup {r}, dedicated' \cup {r} = dedicated \cup {r},
           ReqOK(rec, audit[r], r \in did', r \in dedicated')
    PROVE  ReqMoves(r)
BY DEF ReqMoves, Set, AuditInv

LEMMA ReqIs ==
    ASSUME AuditInv, NEW r \in Requests
    PROVE  /\ ReqOK(request[r], audit[r], r \in did, r \in dedicated)
           /\ DOMAIN request[r] = ReqFields
BY DEF AuditInv, ReqOK, ReqType

LEMMA StartIs ==
    ASSUME AuditInv, NEW r \in Requests, NEW op \in Mutations, Start(r, op)
    PROVE  ReqMoves(r)
<1>1. /\ ReqOK(request[r], audit[r], r \in did, r \in dedicated) /\ DOMAIN request[r] = ReqFields
      /\ request[r].pc = "idle" /\ "kind" \in DOMAIN op
  BY ReqIs, AuditedAssumption DEF Start
<1>2. did' = did /\ dedicated' = dedicated /\ DOMAIN audit = Requests
  BY DEF Start, AuditInv
<1>3. ASSUME NEW pc \in {"route", "done"}, NEW rec, rec = [request[r] EXCEPT !.pc = pc, !.op = op]
      PROVE  /\ DOMAIN rec = ReqFields /\ rec.pc = pc /\ rec.op = op /\ rec.at = request[r].at
             /\ rec.changed = request[r].changed /\ rec.committed = request[r].committed
             /\ rec.own = request[r].own /\ rec.status = request[r].status
  BY <1>1, <1>3 DEF ReqFields
<1>4. CASE /\ Set(r, [request[r] EXCEPT !.pc = "route", !.op = op])
           /\ audit' = [audit EXCEPT ![r] = "pending"]
  <2> DEFINE rec == [request[r] EXCEPT !.pc = "route", !.op = op]
  <2>1. /\ DOMAIN rec = ReqFields /\ rec.pc = "route" /\ rec.op = op /\ rec.at = request[r].at
        /\ rec.changed = request[r].changed /\ rec.committed = request[r].committed
        /\ rec.own = request[r].own /\ rec.status = request[r].status
    BY <1>3
  <2>2. request' = [request EXCEPT ![r] = rec] /\ audit'[r] = "pending" /\ DOMAIN audit' = Requests
        /\ \A q \in Requests \ {r} : audit'[q] = audit[q]
    BY <1>2, <1>4 DEF Set
  <2> HIDE DEF rec
  <2>3. ReqOK(rec, "pending", r \in did, r \in dedicated)
    BY <1>1, <2>1 DEF ReqOK, ReqType, Early, ReqPcs, Statuses
  <2> QED BY <1>2, <2>2, <2>3 DEF ReqMoves
<1>5. CASE /\ Set(r, [request[r] EXCEPT !.pc = "done", !.op = op])
           /\ UNCHANGED audit
  <2> DEFINE rec == [request[r] EXCEPT !.pc = "done", !.op = op]
  <2>1. /\ DOMAIN rec = ReqFields /\ rec.pc = "done" /\ rec.op = op /\ rec.at = request[r].at
        /\ rec.changed = request[r].changed /\ rec.committed = request[r].committed
        /\ rec.own = request[r].own /\ rec.status = request[r].status
    BY <1>3
  <2> HIDE DEF rec
  <2>2. ReqOK(rec, audit[r], r \in did, r \in dedicated)
    BY <1>1, <2>1 DEF ReqOK, ReqType, Early, ReqPcs, Statuses
  <2>3. Set(r, rec)
    BY <1>5 DEF rec
  <2> QED BY <1>2, <1>5, <2>2, <2>3, ReqTells
<1> QED BY <1>4, <1>5 DEF Start

\* An answer from within a route that has not been answered.
LEMMA AnswerOK ==
    ASSUME NEW old, NEW intent, NEW was, NEW told, ReqOK(old, intent, was, told),
           NEW rec, DOMAIN rec = ReqFields, rec.pc = "answered", rec.op = old.op, rec.at = old.at,
           rec.committed = old.committed, rec.own = old.own, rec.changed \in BOOLEAN,
           old.pc \in Early, rec.status \in Statuses \ {"none"}, NEW isIn \in BOOLEAN, was => isIn,
           rec.status = "ok" => old.op.kind # "users" /\ (rec.changed => isIn),
           ~rec.changed => ~isIn,
           isIn => rec.status \in {"ok", "error"}
    PROVE  ReqOK(rec, intent, isIn, told)
<1>1. old.pc \notin {"idle", "done", "own", "answered"} /\ ~told /\ ~old.committed /\ ~old.own
      /\ intent = "pending"
  BY DEF Early, ReqOK
<1>2. ReqType(rec)
  BY <1>1 DEF ReqOK, ReqType, ReqPcs, Statuses
<1> QED BY <1>1, <1>2 DEF ReqOK, Early

LEMMA RefusedIs ==
    ASSUME NEW op
    PROVE  Refused(op) \in {"no", "conflict", "missing", "error"}
BY DEF Refused

\* A route answers: with what it has changed, or that it has changed nothing.
LEMMA AnswersKeep ==
    ASSUME AuditInv, NEW r \in Requests, request[r].pc \in Early, NEW status \in Statuses \ {"none"},
           Set(r, Answers(r, status)), UNCHANGED <<audit, dedicated>>,
           did' \cup {r} = did \cup {r}, r \in did => r \in did',
           status = "ok" => request[r].op.kind # "users" /\ r \in did',
           r \in did' => status \in {"ok", "error"}
    PROVE  ReqMoves(r)
<1> DEFINE old == request[r]
           rec == Answers(r, status)
<1>1. /\ ReqOK(old, audit[r], r \in did, r \in dedicated) /\ DOMAIN old = ReqFields
      /\ old.changed = TRUE
  BY ReqIs DEF ReqOK, ReqType, Early
<1>2. /\ DOMAIN rec = ReqFields /\ rec.pc = "answered" /\ rec.status = status /\ rec.op = old.op
      /\ rec.at = old.at /\ rec.changed = old.changed /\ rec.committed = old.committed
      /\ rec.own = old.own
  BY <1>1, AnswersIs DEF Answers
<1> DEFINE isIn == r \in did'
<1>3. /\ isIn \in BOOLEAN /\ (r \in did => isIn) /\ (isIn => status \in {"ok", "error"})
      /\ status = "ok" => request[r].op.kind # "users" /\ isIn
  OBVIOUS
<1> HIDE DEF rec, isIn
<1>4. rec.changed \in BOOLEAN /\ rec.changed
  BY <1>1, <1>2
<1>5. ReqOK(rec, audit[r], isIn, r \in dedicated)
  <2>1. rec.status \in Statuses \ {"none"}
    BY <1>2
  <2>2. rec.status = "ok" => old.op.kind # "users" /\ (rec.changed => isIn)
    BY <1>2, <1>3
  <2>3. (~rec.changed => ~isIn) /\ (isIn => rec.status \in {"ok", "error"})
    BY <1>2, <1>3, <1>4
  <2> DEFINE was == r \in did
             told == r \in dedicated
             a == audit[r]
  <2>4. ReqOK(old, a, was, told) /\ (was => isIn) /\ isIn \in BOOLEAN /\ old.pc \in Early
    BY <1>1, <1>3
  <2> HIDE DEF was, told, a, old
  <2>5. ReqOK(rec, a, isIn, told)
    BY <1>2, <1>4, <2>1, <2>2, <2>3, <2>4, AnswerOK
  <2> QED BY <2>5 DEF a, told
<1>6. Set(r, rec)
  BY DEF rec
<1> QED BY <1>5, <1>6, ReqTells DEF isIn

LEMMA UnchangedKeep ==
    ASSUME AuditInv, NEW r \in Requests, request[r].pc \in Early,
           Set(r, Unchanging(Answers(r, "ok"))), UNCHANGED <<audit, dedicated>>,
           did' \cup {r} = did \cup {r}, r \notin did, r \notin did', request[r].op.kind # "users"
    PROVE  ReqMoves(r)
<1> DEFINE old == request[r]
           ans == Answers(r, "ok")
           rec == Unchanging(ans)
<1>1. ReqOK(old, audit[r], r \in did, r \in dedicated) /\ DOMAIN old = ReqFields
  BY ReqIs
<1>2. /\ DOMAIN ans = ReqFields /\ ans.pc = "answered" /\ ans.status = "ok" /\ ans.op = old.op
      /\ ans.at = old.at /\ ans.committed = old.committed /\ ans.own = old.own
  BY <1>1, AnswersIs DEF Answers
<1> HIDE DEF ans
<1>3. /\ DOMAIN rec = ReqFields /\ rec.pc = "answered" /\ rec.status = "ok" /\ rec.op = old.op
      /\ rec.at = old.at /\ rec.changed = FALSE /\ rec.committed = old.committed
      /\ rec.own = old.own
  BY <1>2, UnchangingIs
<1> HIDE DEF rec
<1>4. rec.status \in Statuses \ {"none"} /\ rec.changed \in BOOLEAN /\ ~rec.changed
  BY <1>3 DEF Statuses
<1>5. ReqOK(rec, audit[r], r \in did, r \in dedicated)
  BY <1>1, <1>3, <1>4, AnswerOK
<1>6. (r \in did') = (r \in did)
  OBVIOUS
<1>7. ReqOK(rec, audit[r], r \in did', r \in dedicated)
  BY <1>5, <1>6
<1>8. Set(r, rec)
  BY DEF rec, ans
<1> QED BY <1>7, <1>8, ReqTells

\* Another place, early in the route.
LEMMA MovesKeep ==
    ASSUME AuditInv, NEW r \in Requests, NEW pc, NEW rec, Set(r, rec),
           DOMAIN rec = ReqFields, rec.pc = pc, rec.op = request[r].op, rec.at \in Nat,
           rec.changed = request[r].changed, rec.committed = request[r].committed,
           rec.own = request[r].own, rec.status = request[r].status,
           request[r].pc \in Early, r \notin did,
           \/ pc = "select" /\ request[r].op.kind = "tag.update"
           \/ pc \in {"lock", "write"} /\ request[r].op.kind = "note",
           UNCHANGED <<audit, dedicated, did>>
    PROVE  ReqMoves(r)
<1>1. ReqOK(request[r], audit[r], r \in did, r \in dedicated)
  BY ReqIs
<1>2. ReqOK(rec, audit[r], r \in did, r \in dedicated)
  BY <1>1 DEF ReqOK, ReqType, Early, ReqPcs, Statuses
<1> QED BY <1>2, ReqTells

LEMMA StateIs ==
    ASSUME AuditInv, NEW r \in Requests, State(r)
    PROVE  ReqMoves(r)
<1> DEFINE old == request[r]
           op == old.op
<1>1. /\ ReqOK(old, audit[r], r \in did, r \in dedicated) /\ DOMAIN old = ReqFields
      /\ old.pc = "route" /\ op.kind \in OneStatement /\ UNCHANGED <<audit, dedicated>>
  BY ReqIs DEF State, Is
<1>2. op.kind # "users" /\ op.kind # "scan" /\ r \notin did /\ old.at \in Nat /\ old.pc \in Early
  BY <1>1 DEF OneStatement, ReqOK, ReqType, Early
<1>3. /\ did' \cup {r} = did \cup {r}
      /\ After(op) # content => r \in did'
      /\ After(op) = content => did' = did
  BY <1>2 DEF State
<1>4. CASE Set(r, Answers(r, "error"))
  BY <1>1, <1>2, <1>3, <1>4, AnswersKeep DEF Statuses
<1>5. CASE After(op) # content /\ Set(r, Answers(r, "ok"))
  BY <1>1, <1>2, <1>3, <1>5, AnswersKeep DEF Statuses
<1>6. CASE After(op) = content /\ op.kind = "tag.update" /\ Set(r, [request[r] EXCEPT !.pc = "select"])
  <2> DEFINE rec == [request[r] EXCEPT !.pc = "select"]
  <2>1. /\ DOMAIN rec = ReqFields /\ rec.pc = "select" /\ rec.status = old.status /\ rec.op = old.op
        /\ rec.at = old.at /\ rec.changed = old.changed /\ rec.committed = old.committed
        /\ rec.own = old.own
    BY <1>1, MovedIs
  <2>2. Set(r, rec)
    BY <1>6
  <2> HIDE DEF rec
  <2> QED BY <1>1, <1>2, <1>3, <1>6, <2>1, <2>2, MovesKeep
<1>7. CASE After(op) = content /\ Set(r, Unchanging(Answers(r, "ok")))
  BY <1>1, <1>2, <1>3, <1>7, UnchangedKeep
<1> QED BY <1>4, <1>5, <1>6, <1>7 DEF State

LEMMA RefuseIs ==
    ASSUME AuditInv, NEW r \in Requests, Refuse(r)
    PROVE  ReqMoves(r)
<1> DEFINE status == Refused(request[r].op)
<1>1. /\ ReqOK(request[r], audit[r], r \in did, r \in dedicated)
      /\ request[r].pc = "route" /\ request[r].op.kind \in OneStatement
      /\ Set(r, Answers(r, status)) /\ UNCHANGED <<audit, dedicated, did>>
  BY ReqIs DEF Refuse, Is, UnchangedBut
<1>2. r \notin did /\ request[r].pc \in Early
  BY <1>1 DEF OneStatement, ReqOK, Early
<1>3. status \in {"conflict", "missing", "error"}
  BY RefusedIs DEF Refuse
<1> HIDE DEF status
<1> QED BY <1>1, <1>2, <1>3, AnswersKeep DEF Statuses

LEMMA SelectTagIs ==
    ASSUME AuditInv, NEW r \in Requests, SelectTag(r)
    PROVE  ReqMoves(r)
<1>1. /\ ReqOK(request[r], audit[r], r \in did, r \in dedicated)
      /\ request[r].pc = "select" /\ UNCHANGED <<audit, dedicated, did>>
      /\ Set(r, Unchanging(Answers(r, "ok"))) \/ Set(r, Answers(r, "missing"))
  BY ReqIs DEF SelectTag, UnchangedBut
<1>2. r \notin did /\ request[r].pc \in Early /\ request[r].op.kind # "users"
  BY <1>1 DEF ReqOK, Early
<1>3. CASE Set(r, Unchanging(Answers(r, "ok")))
  BY <1>1, <1>2, <1>3, UnchangedKeep
<1>4. CASE Set(r, Answers(r, "missing"))
  BY <1>1, <1>2, <1>4, AnswersKeep DEF Statuses
<1> QED BY <1>1, <1>3, <1>4

LEMMA ThrowIs ==
    ASSUME AuditInv, NEW r \in Requests, Throw(r)
    PROVE  ReqMoves(r)
<1>1. request[r].pc \in Early /\ Set(r, Answers(r, "error")) /\ UNCHANGED <<audit, dedicated, did>>
  BY DEF Throw, UnchangedBut, Early
<1> QED BY <1>1, AnswersKeep DEF Statuses

LEMMA BeginNoteIs ==
    ASSUME AuditInv, NEW r \in Requests, BeginNote(r)
    PROVE  ReqMoves(r)
<1> DEFINE rec == [request[r] EXCEPT !.pc = "lock", !.at = clock + 1]
<1>1. /\ ReqOK(request[r], audit[r], r \in did, r \in dedicated) /\ DOMAIN request[r] = ReqFields
      /\ request[r].pc = "route" /\ request[r].op.kind = "note" /\ Set(r, rec)
      /\ UNCHANGED <<audit, dedicated, did>> /\ clock + 1 \in Nat
  BY ReqIs DEF BeginNote, Is, AuditInv, NoteInv
<1>2. r \notin did /\ request[r].pc \in Early
  BY <1>1 DEF ReqOK, Early
<1>3. /\ DOMAIN rec = ReqFields /\ rec.pc = "lock" /\ rec.status = request[r].status
      /\ rec.op = request[r].op /\ rec.at = clock + 1 /\ rec.changed = request[r].changed
      /\ rec.committed = request[r].committed /\ rec.own = request[r].own
  BY <1>1 DEF ReqFields
<1> HIDE DEF rec
<1> QED BY <1>1, <1>2, <1>3, MovesKeep

LEMMA LockNoteIs ==
    ASSUME AuditInv, NEW r \in Requests, LockNote(r)
    PROVE  ReqMoves(r)
<1> DEFINE rec == [request[r] EXCEPT !.pc = "write"]
<1>1. /\ ReqOK(request[r], audit[r], r \in did, r \in dedicated) /\ DOMAIN request[r] = ReqFields
      /\ request[r].pc = "lock" /\ UNCHANGED <<audit, dedicated, did>>
      /\ Set(r, Unchanging(Answers(r, "ok"))) \/ Set(r, rec)
  BY ReqIs DEF LockNote
<1>2. /\ r \notin did /\ request[r].pc \in Early /\ request[r].op.kind = "note"
      /\ request[r].at \in Nat
  BY <1>1 DEF ReqOK, ReqType, Early
<1>3. /\ DOMAIN rec = ReqFields /\ rec.pc = "write" /\ rec.status = request[r].status
      /\ rec.op = request[r].op /\ rec.at = request[r].at /\ rec.changed = request[r].changed
      /\ rec.committed = request[r].committed /\ rec.own = request[r].own
  BY <1>1, MovedIs
<1> HIDE DEF rec
<1>4. CASE Set(r, Unchanging(Answers(r, "ok")))
  BY <1>1, <1>2, <1>4, UnchangedKeep
<1>5. CASE Set(r, rec)
  BY <1>1, <1>2, <1>3, <1>5, MovesKeep
<1> QED BY <1>1, <1>4, <1>5

LEMMA CommitNoteIs ==
    ASSUME AuditInv, NEW r \in Requests, CommitNote(r)
    PROVE  ReqMoves(r)
<1>1. PICK status \in {"ok", "error"} : Set(r, Answers(r, status))
  BY DEF CommitNote
<1>2. /\ ReqOK(request[r], audit[r], r \in did, r \in dedicated)
      /\ request[r].pc = "write" /\ UNCHANGED <<audit, dedicated>> /\ did' = did \cup {r}
  BY ReqIs DEF CommitNote
<1>3. request[r].pc \in Early /\ request[r].op.kind # "users"
  BY <1>2 DEF ReqOK, Early
<1> QED BY <1>1, <1>2, <1>3, AnswersKeep DEF Statuses

LEMMA NoteFailsIs ==
    ASSUME AuditInv, NEW r \in Requests, NoteFails(r)
    PROVE  ReqMoves(r)
<1>1. request[r].pc \in Early /\ Set(r, Answers(r, "error")) /\ UNCHANGED <<audit, dedicated, did>>
  BY DEF NoteFails, Early
<1> QED BY <1>1, AnswersKeep DEF Statuses
\* One scan of several: the others are still to be asked for.
LEMMA LessToScan ==
    ASSUME NEW rec, DOMAIN rec = ReqFields, "kind" \in DOMAIN rec.op, NEW bs
    PROVE  LET new == [rec EXCEPT !.op.buckets = bs]
           IN  /\ DOMAIN new = ReqFields /\ new.pc = rec.pc /\ new.status = rec.status
               /\ "kind" \in DOMAIN new.op /\ new.op.kind = rec.op.kind /\ new.at = rec.at
               /\ new.changed = rec.changed /\ new.committed = rec.committed /\ new.own = rec.own
<1> DEFINE o == [rec.op EXCEPT !.buckets = bs]
           new == [rec EXCEPT !.op = o]
<1>1. "kind" \in DOMAIN o /\ o.kind = rec.op.kind
  OBVIOUS
<1>2. new = [rec EXCEPT !.op.buckets = bs]
  OBVIOUS
<1> HIDE DEF o
<1>3. /\ DOMAIN new = ReqFields /\ new.pc = rec.pc /\ new.status = rec.status
      /\ new.op = o /\ new.at = rec.at
      /\ new.changed = rec.changed /\ new.committed = rec.committed /\ new.own = rec.own
  BY DEF ReqFields
<1> QED BY <1>1, <1>2, <1>3

LEMMA EnqueueIs ==
    ASSUME AuditInv, NEW r \in Requests, Enqueue(r)
    PROVE  ReqMoves(r)
<1> DEFINE old == request[r]
           op == old.op
<1>1. /\ ReqOK(old, audit[r], r \in did, r \in dedicated) /\ DOMAIN old = ReqFields
      /\ old.pc = "route" /\ op.kind = "scan" /\ UNCHANGED <<audit, dedicated>>
  BY ReqIs DEF Enqueue, Is
<1>2. PICK b \in op.buckets :
          /\ did' = IF b \in content.scans THEN did ELSE did \cup {r}
          /\ Set(r, IF op.buckets = {b}
                    THEN IF r \in did' THEN Answers(r, "ok") ELSE Unchanging(Answers(r, "ok"))
                    ELSE [request[r] EXCEPT !.op.buckets = @ \ {b}])
  BY DEF Enqueue
<1>3. did' \cup {r} = did \cup {r} /\ (r \in did => r \in did') /\ old.pc \in Early
  BY <1>1, <1>2 DEF Early
<1>4. CASE op.buckets = {b} /\ r \in did'
  <2>1. Set(r, Answers(r, "ok"))
    BY <1>2, <1>4
  <2> QED BY <1>1, <1>3, <1>4, <2>1, AnswersKeep DEF Statuses
<1>5. CASE op.buckets = {b} /\ r \notin did'
  <2>1. Set(r, Unchanging(Answers(r, "ok")))
    BY <1>2, <1>5
  <2> QED BY <1>1, <1>3, <1>5, <2>1, UnchangedKeep
<1>6. CASE op.buckets # {b}
  <2> DEFINE rec == [request[r] EXCEPT !.op.buckets = op.buckets \ {b}]
  <2>1. Set(r, rec)
    BY <1>2, <1>6
  <2>2. "kind" \in DOMAIN op
    BY <1>1 DEF ReqOK, ReqType
  <2>3. /\ DOMAIN rec = ReqFields /\ rec.pc = "route" /\ rec.status = old.status
        /\ "kind" \in DOMAIN rec.op /\ rec.op.kind = "scan" /\ rec.at = old.at
        /\ rec.changed = old.changed /\ rec.committed = old.committed /\ rec.own = old.own
    BY <1>1, <2>2, LessToScan
  <2> DEFINE isIn == r \in did'
  <2>4. isIn \in BOOLEAN /\ (r \in did => isIn)
    BY <1>3
  <2> HIDE DEF rec, isIn
  <2>5. ReqOK(rec, audit[r], isIn, r \in dedicated)
    BY <1>1, <2>3, <2>4 DEF ReqOK, ReqType, Early, ReqPcs, Statuses
  <2> QED BY <1>1, <1>3, <2>1, <2>5, ReqTells DEF isIn
<1> QED BY <1>4, <1>5, <1>6

LEMMA CommitIs ==
    ASSUME AuditInv, NEW r \in Requests, Commit(r)
    PROVE  ReqMoves(r)
<1> DEFINE rec == [request[r] EXCEPT !.pc = "own", !.committed = TRUE]
<1>1. /\ ReqOK(request[r], audit[r], r \in did, r \in dedicated) /\ DOMAIN request[r] = ReqFields
      /\ request[r].pc = "route" /\ request[r].op.kind = "users" /\ UNCHANGED <<audit, dedicated>>
      /\ did' = did \cup {r} /\ (Set(r, Answers(r, "error")) \/ Set(r, rec))
      /\ request[r].pc \in Early
  BY ReqIs DEF Commit, Is, Early
<1>2. CASE Set(r, Answers(r, "error"))
  BY <1>1, <1>2, AnswersKeep DEF Statuses
<1>3. CASE Set(r, rec)
  <2>1. /\ DOMAIN rec = ReqFields /\ rec.pc = "own" /\ rec.status = request[r].status
        /\ rec.op = request[r].op /\ rec.at = request[r].at /\ rec.changed = request[r].changed
        /\ rec.committed = TRUE /\ rec.own = request[r].own
    BY <1>1 DEF ReqFields
  <2> HIDE DEF rec
  <2>2. ReqOK(rec, audit[r], TRUE, r \in dedicated)
    BY <1>1, <2>1 DEF ReqOK, ReqType, Early, ReqPcs, Statuses
  <2>3. (r \in did') = TRUE
    BY <1>1
  <2> QED BY <1>1, <1>3, <2>2, <2>3, ReqTells
<1> QED BY <1>1, <1>2, <1>3

LEMMA WriteDedicatedAuditIs ==
    ASSUME AuditInv, NEW r \in Requests, WriteDedicatedAudit(r)
    PROVE  ReqMoves(r)
<1>1. /\ ReqOK(request[r], audit[r], r \in did, r \in dedicated) /\ DOMAIN request[r] = ReqFields
      /\ request[r].pc = "own" /\ UNCHANGED <<audit, did>>
  BY ReqIs DEF WriteDedicatedAudit
<1>2. PICK kept \in BOOLEAN, told \in BOOLEAN, status \in {"ok", "error"} :
          /\ told => kept
          /\ dedicated' = IF kept THEN dedicated \cup {r} ELSE dedicated
          /\ Set(r, [Answers(r, status) EXCEPT !.own = told])
  BY DEF WriteDedicatedAudit
<1> DEFINE ans == Answers(r, status)
           rec == [ans EXCEPT !.own = told]
<1>3. /\ DOMAIN ans = ReqFields /\ ans.pc = "answered" /\ ans.status = status
      /\ ans.op = request[r].op /\ ans.at = request[r].at /\ ans.changed = request[r].changed
      /\ ans.committed = request[r].committed
  BY <1>1, AnswersIs DEF Answers
<1> HIDE DEF ans
<1>4. /\ DOMAIN rec = ReqFields /\ rec.pc = "answered" /\ rec.status = status
      /\ rec.op = request[r].op /\ rec.at = request[r].at /\ rec.changed = request[r].changed
      /\ rec.committed = request[r].committed /\ rec.own = told
  BY <1>3 DEF ReqFields
<1> HIDE DEF rec
<1>5. ReqOK(rec, audit[r], r \in did, r \in dedicated')
  <2>1. CASE kept
    <3>1. (r \in dedicated') = TRUE
      BY <1>2, <2>1
    <3>2. ReqOK(rec, audit[r], r \in did, TRUE)
      BY <1>1, <1>4 DEF ReqOK, ReqType, Early, ReqPcs, Statuses
    <3> QED BY <3>1, <3>2
  <2>2. CASE ~kept
    <3>1. (r \in dedicated') = (r \in dedicated) /\ told = FALSE
      BY <1>2, <2>2
    <3>2. ReqOK(rec, audit[r], r \in did, r \in dedicated)
      BY <1>1, <1>4, <3>1 DEF ReqOK, ReqType, Early, ReqPcs, Statuses
    <3> QED BY <3>1, <3>2
  <2> QED BY <2>1, <2>2
<1>6. dedicated' \cup {r} = dedicated \cup {r} /\ Set(r, rec) /\ (r \in did') = (r \in did)
  BY <1>1, <1>2 DEF rec, ans
<1> QED BY <1>1, <1>5, <1>6, ReqTells

LEMMA FinishIntentIs ==
    ASSUME AuditInv, NEW r \in Requests, FinishIntent(r)
    PROVE  ReqMoves(r)
<1> DEFINE old == request[r]
           rec == [request[r] EXCEPT !.pc = "done"]
           isIn == r \in did
           told == r \in dedicated
<1>1. /\ ReqOK(old, audit[r], isIn, told) /\ DOMAIN old = ReqFields
      /\ old.pc = "answered" /\ UNCHANGED <<did, dedicated>> /\ Set(r, rec)
      /\ UNCHANGED audit \/ audit' = [audit EXCEPT ![r] = Outcome(old)]
  BY ReqIs DEF FinishIntent
<1>2. /\ DOMAIN rec = ReqFields /\ rec.pc = "done" /\ rec.status = old.status
      /\ rec.op = old.op /\ rec.at = old.at /\ rec.changed = old.changed
      /\ rec.committed = old.committed /\ rec.own = old.own
  BY <1>1, MovedIs
<1> HIDE DEF rec
<1>3. CASE UNCHANGED audit
  <2>1. ReqOK(rec, audit[r], isIn, told)
    BY <1>1, <1>2 DEF ReqOK, ReqType, Early, ReqPcs, Statuses
  <2> QED BY <1>1, <1>3, <2>1, ReqTells
<1>4. CASE audit' = [audit EXCEPT ![r] = Outcome(old)]
  <2> HIDE DEF isIn, told
  <2>1. ReqOK(rec, Outcome(old), isIn, told)
    <3>1. CASE Outcome(old) = "success"
      <4>1. isIn
        BY <1>1, <3>1 DEF Outcome, CommittedUnaudited, ReqOK, ReqType
      <4> QED BY <1>1, <1>2, <3>1, <4>1 DEF ReqOK, ReqType, Early, ReqPcs, Statuses
    <3>2. CASE Outcome(old) = "discarded"
      <4>1. isIn => told \/ (old.status = "error" /\ ~old.committed)
        <5>1. ~CommittedUnaudited(old)
          BY <3>2 DEF Outcome
        <5>2. old.status # "ok" \/ ~old.changed \/ old.op.kind = "users"
          BY <3>2, <5>1 DEF Outcome
        <5> QED BY <1>1, <5>1, <5>2 DEF CommittedUnaudited, ReqOK, ReqType
      <4> QED BY <1>1, <1>2, <3>2, <4>1 DEF ReqOK, ReqType, Early, ReqPcs, Statuses
    <3> QED BY <3>1, <3>2 DEF Outcome
  <2>2. DOMAIN audit' = Requests /\ audit'[r] = Outcome(old)
        /\ \A q \in Requests \ {r} : audit'[q] = audit[q]
    BY <1>4 DEF AuditInv
  <2>3. request' = [request EXCEPT ![r] = rec]
    BY <1>1 DEF Set
  <2> HIDE DEF old
  <2> QED BY <1>1, <2>1, <2>2, <2>3 DEF ReqMoves, isIn, told
<1> QED BY <1>1, <1>3, <1>4
LEMMA ApiDiesIs ==
    ASSUME AuditInv, ApiDies
    PROVE  AllReqsOK' /\ \A r \in Requests : request'[r].pc # "write"
<1>1. /\ request' = [r \in Requests |->
                     [request[r] EXCEPT !.pc = IF @ = "idle" THEN "idle" ELSE "done"]]
      /\ UNCHANGED <<audit, dedicated, did>>
  BY DEF ApiDies
<1>2. ASSUME NEW r \in Requests
      PROVE  /\ ReqOK(request'[r], audit[r], r \in did, r \in dedicated)
             /\ request'[r].pc # "write"
  <2> DEFINE old == request[r]
             pc == IF old.pc = "idle" THEN "idle" ELSE "done"
             rec == [old EXCEPT !.pc = pc]
  <2>1. ReqOK(old, audit[r], r \in did, r \in dedicated) /\ DOMAIN old = ReqFields
    BY ReqIs
  <2>2. pc \in {"idle", "done"} /\ (pc = "idle" <=> old.pc = "idle") /\ request'[r] = rec
    BY <1>1
  <2> HIDE DEF pc
  <2>3. /\ DOMAIN rec = ReqFields /\ rec.pc = pc /\ rec.status = old.status
        /\ rec.op = old.op /\ rec.at = old.at /\ rec.changed = old.changed
        /\ rec.committed = old.committed /\ rec.own = old.own
    BY <2>1, MovedIs
  <2> HIDE DEF rec
  <2>4. ReqOK(rec, audit[r], r \in did, r \in dedicated)
    <3>1. CASE old.pc = "idle"
      BY <2>1, <2>2, <2>3, <3>1 DEF ReqOK, ReqType
    <3>2. CASE old.pc # "idle"
      BY <2>1, <2>2, <2>3, <3>2 DEF ReqOK, ReqType, Early, ReqPcs, Statuses
    <3> QED BY <3>1, <3>2
  <2> QED BY <2>2, <2>3, <2>4
<1> QED BY <1>1, <1>2 DEF AllReqsOK, AuditInv

\* Where a record goes.
LEMMA RecPcs ==
    ASSUME AuditInv, NEW r \in Requests, NEW status
    PROVE  Answers(r, status).pc = "answered" /\ Unchanging(Answers(r, status)).pc = "answered"
<1>1. DOMAIN request[r] = ReqFields
  BY ReqIs
<1> QED BY <1>1 DEF ReqFields, Answers, Unchanging

\* A step that has nothing to do with the note.
NoteIdle(r) ==
    /\ request[r].pc # "write" /\ request'[r].pc # "write"
    /\ \A q \in Requests \ {r} : request'[q] = request[q]
    /\ UNCHANGED <<notes, noteLock>>
    /\ DOMAIN content' = Tables /\ content'.note = content.note /\ clock' \in Nat

LEMMA NoteKeeps ==
    ASSUME AuditInv, NEW r \in Requests, NoteIdle(r)
    PROVE  NoteInv'
<1>1. NoteIsItsLastVersion'
  BY DEF NoteIsItsLastVersion, NoteIdle, AuditInv, NoteInv
<1> QED BY <1>1 DEF NoteIdle, NoteInv, AuditInv

LEMMA SetIs ==
    ASSUME AuditInv, NEW r \in Requests, NEW rec, Set(r, rec)
    PROVE  request'[r] = rec /\ \A q \in Requests \ {r} : request'[q] = request[q]
BY DEF Set, AuditInv

LEMMA AfterIs ==
    ASSUME DOMAIN content = Tables, NEW op, op.kind \in OneStatement
    PROVE  DOMAIN After(op) = Tables /\ After(op).note = content.note
BY DEF Tables, OneStatement, After

LEMMA StepsLeaveTheNote ==
    ASSUME AuditInv, NEW r \in Requests,
           \/ \E op \in Mutations : Start(r, op)
           \/ State(r) \/ Refuse(r) \/ SelectTag(r) \/ BeginNote(r)
           \/ Enqueue(r) \/ Throw(r) \/ Commit(r) \/ WriteDedicatedAudit(r) \/ FinishIntent(r)
    PROVE  NoteIdle(r)
<1> DEFINE Lands == request'[r].pc # "write" /\ \A q \in Requests \ {r} : request'[q] = request[q]
           Same == UNCHANGED <<content, notes, noteLock, clock>>
<1>1. DOMAIN content = Tables /\ clock \in Nat /\ DOMAIN request[r] = ReqFields
  BY ReqIs DEF AuditInv, NoteInv
<1>2. ASSUME NEW status, Set(r, Answers(r, status)) \/ Set(r, Unchanging(Answers(r, status)))
      PROVE  Lands
  BY <1>2, RecPcs, SetIs
<1>3. ASSUME NEW rec, Set(r, rec), rec.pc # "write" PROVE Lands
  BY <1>3, SetIs
<1>4. ASSUME Lands, Same, request[r].pc # "write" PROVE NoteIdle(r)
  BY <1>1, <1>4 DEF NoteIdle
<1>5. ASSUME NEW op \in Mutations, Start(r, op) PROVE NoteIdle(r)
  <2>1. PICK pc \in {"route", "done"} : Set(r, [request[r] EXCEPT !.pc = pc, !.op = op])
    BY <1>5 DEF Start
  <2>2. [request[r] EXCEPT !.pc = pc, !.op = op].pc # "write"
    BY <1>1 DEF ReqFields
  <2>3. Lands
    BY <1>3, <2>1, <2>2
  <2> QED BY <1>4, <1>5, <2>3 DEF Start
<1>6. CASE State(r)
  <2>1. content' = After(request[r].op) /\ request[r].op.kind \in OneStatement
    BY <1>6 DEF State, Is
  <2>2. DOMAIN content' = Tables /\ content'.note = content.note
    BY <1>1, <2>1, AfterIs
  <2>3. request[r].pc # "write" /\ UNCHANGED <<notes, noteLock, clock>>
    BY <1>6 DEF State, Is
  <2>4. \/ Set(r, Answers(r, "error")) \/ Set(r, Answers(r, "ok"))
        \/ Set(r, [request[r] EXCEPT !.pc = "select"]) \/ Set(r, Unchanging(Answers(r, "ok")))
    BY <1>6 DEF State
  <2>5. [request[r] EXCEPT !.pc = "select"].pc # "write"
    BY <1>1, MovedIs
  <2>6. Lands
    BY <1>2, <1>3, <2>4, <2>5
  <2> QED BY <1>1, <2>2, <2>3, <2>6 DEF NoteIdle
<1>7. CASE Refuse(r)
  BY <1>2, <1>4, <1>7 DEF Refuse, UnchangedBut, Is
<1>8. CASE SelectTag(r)
  <2>1. /\ Set(r, Unchanging(Answers(r, "ok"))) \/ Set(r, Answers(r, "missing"))
        /\ Same /\ request[r].pc # "write"
    BY <1>8 DEF SelectTag, UnchangedBut
  <2> QED BY <1>2, <1>4, <2>1
<1>9. CASE BeginNote(r)
  <2> DEFINE rec == [request[r] EXCEPT !.pc = "lock", !.at = clock + 1]
  <2>1. Set(r, rec) /\ rec.pc # "write"
    BY <1>1, <1>9 DEF BeginNote, ReqFields
  <2>2. Lands
    BY <1>3, <2>1
  <2> QED BY <1>1, <1>9, <2>2 DEF BeginNote, Is, NoteIdle
<1>10. CASE Enqueue(r)
  <2>1. PICK b \in request[r].op.buckets :
          /\ content' = [content EXCEPT !.scans = @ \cup {b}]
          /\ Set(r, IF request[r].op.buckets = {b}
                    THEN IF r \in did' THEN Answers(r, "ok") ELSE Unchanging(Answers(r, "ok"))
                    ELSE [request[r] EXCEPT !.op.buckets = @ \ {b}])
    BY <1>10 DEF Enqueue
  <2>2. request[r].pc = "route" /\ UNCHANGED <<notes, noteLock, clock>>
    BY <1>10 DEF Enqueue, Is
  <2>3. DOMAIN content' = Tables /\ content'.note = content.note
    BY <1>1, <2>1 DEF Tables
  <2> DEFINE rec == [request[r] EXCEPT !.op.buckets = request[r].op.buckets \ {b}]
  <2>4. Set(r, Answers(r, "ok")) \/ Set(r, Unchanging(Answers(r, "ok"))) \/ Set(r, rec)
    BY <2>1
  <2>5. rec.pc # "write"
    BY <1>1, <2>2 DEF ReqFields
  <2>6. Lands
    BY <1>2, <1>3, <2>4, <2>5
  <2> QED BY <1>1, <2>2, <2>3, <2>6 DEF NoteIdle
<1>11. CASE Throw(r)
  BY <1>2, <1>4, <1>11 DEF Throw, UnchangedBut
<1>12. CASE Commit(r)
  <2> DEFINE rec == [request[r] EXCEPT !.pc = "own", !.committed = TRUE]
  <2>1. DOMAIN content' = Tables /\ content'.note = content.note
    BY <1>1, <1>12 DEF Commit, Tables
  <2>2. Set(r, Answers(r, "error")) \/ Set(r, rec)
    BY <1>12 DEF Commit
  <2>3. rec.pc # "write"
    BY <1>1 DEF ReqFields
  <2>4. Lands
    BY <1>2, <1>3, <2>2, <2>3
  <2> QED BY <1>1, <1>12, <2>1, <2>4 DEF Commit, Is, NoteIdle
<1>13. CASE WriteDedicatedAudit(r)
  <2>1. PICK told \in BOOLEAN, status \in {"ok", "error"} : Set(r, [Answers(r, status) EXCEPT !.own = told])
    BY <1>13 DEF WriteDedicatedAudit
  <2>2. [Answers(r, status) EXCEPT !.own = told].pc # "write"
    BY <1>1 DEF ReqFields, Answers
  <2>3. Lands
    BY <1>3, <2>1, <2>2
  <2> QED BY <1>4, <1>13, <2>3 DEF WriteDedicatedAudit
<1>14. CASE FinishIntent(r)
  <2> DEFINE rec == [request[r] EXCEPT !.pc = "done"]
  <2>1. Set(r, rec) /\ rec.pc # "write"
    BY <1>1, <1>14, MovedIs DEF FinishIntent
  <2>2. Lands
    BY <1>3, <2>1
  <2> QED BY <1>4, <1>14, <2>2 DEF FinishIntent
<1> QED BY <1>5, <1>6, <1>7, <1>8, <1>9, <1>10, <1>11, <1>12, <1>13, <1>14

LEMMA LockNoteKeeps ==
    ASSUME AuditInv, NEW r \in Requests, LockNote(r)
    PROVE  NoteInv'
<1>1. /\ request[r].pc = "lock" /\ noteLock = NoText /\ UNCHANGED <<content, notes, clock>>
      /\ DOMAIN request = Requests /\ NoteInv /\ r # NoText
  BY AuditedAssumption DEF LockNote, AuditInv
<1>2. NoteIsItsLastVersion'
  BY <1>1 DEF NoteIsItsLastVersion, NoteInv
<1>3. CASE content.note = request[r].op.body
  <2>1. NoteIdle(r)
    BY <1>1, <1>3, RecPcs, SetIs DEF LockNote, NoteIdle, NoteInv
  <2> QED BY <2>1, NoteKeeps
<1>4. CASE content.note # request[r].op.body
  <2> DEFINE rec == [request[r] EXCEPT !.pc = "write"]
  <2>1. rec.pc = "write" /\ rec.op = request[r].op
    BY ReqIs, MovedIs
  <2>2. noteLock' = r /\ request' = [request EXCEPT ![r] = rec]
    BY <1>4 DEF LockNote, Set
  <2> HIDE DEF rec
  <2>3. request'[r] = rec /\ \A q \in Requests \ {r} : request'[q] = request[q]
    BY <1>1, <2>2
  <2>4. \A q \in Requests \ {r} : request'[q].pc # "write"
    BY <1>1, <2>3, AuditedAssumption DEF NoteInv
  <2> QED BY <1>1, <1>2, <1>4, <2>1, <2>2, <2>3, <2>4 DEF NoteInv
<1> QED BY <1>3, <1>4

LEMMA CommitNoteKeeps ==
    ASSUME AuditInv, NEW r \in Requests, CommitNote(r)
    PROVE  NoteInv'
<1> DEFINE body == request[r].op.body
           version == [body |-> body, at |-> request[r].at]
<1>1. /\ request[r].pc = "write" /\ content' = [content EXCEPT !.note = body]
      /\ notes' = Append(notes, version) /\ noteLock' = NoText /\ clock' = clock
      /\ NoteInv /\ DOMAIN request = Requests
  BY DEF CommitNote, AuditInv
<1>2. PICK status \in {"ok", "error"} : Set(r, Answers(r, status))
  BY DEF CommitNote
<1>3. request'[r].pc # "write" /\ \A q \in Requests \ {r} : request'[q] = request[q]
  BY <1>1, <1>2, RecPcs DEF Set
<1>4. \A q \in Requests : request'[q].pc # "write"
  BY <1>1, <1>3 DEF NoteInv
<1>5. body \in Bodies /\ request[r].at \in Nat
  <2>1. request[r].op \in Mutations /\ request[r].at \in Nat
    BY <1>1, ReqIs DEF ReqOK, ReqType
  <2> QED BY <2>1 DEF Bodies
<1>6. body # content.note /\ DOMAIN content' = Tables /\ content'.note = body
  BY <1>1 DEF NoteInv, Tables
<1>7. version \in [body : Bodies, at : Nat] /\ version.body = body
  BY <1>5
<1> HIDE DEF version, body
<1>8. /\ notes' \in Seq([body : Bodies, at : Nat]) /\ Len(notes') = Len(notes) + 1
      /\ Len(notes) \in Nat /\ notes'[Len(notes) + 1] = version
      /\ \A i \in 1 .. Len(notes) : notes'[i] = notes[i]
  BY <1>1, <1>7 DEF NoteInv
<1>9. NoteIsItsLastVersion'
  <2>1. notes'[Len(notes')].body = content'.note
    BY <1>6, <1>7, <1>8
  <2>2. ASSUME NEW i \in 2 .. Len(notes') PROVE notes'[i].body # notes'[i - 1].body
    <3>1. CASE i = Len(notes')
      <4>1. notes'[i - 1] = notes[Len(notes)] /\ notes # <<>>
        BY <1>8, <2>2, <3>1
      <4>2. notes[Len(notes)].body = content.note
        BY <1>1, <4>1 DEF NoteInv, NoteIsItsLastVersion
      <4> QED BY <1>6, <1>7, <1>8, <3>1, <4>1, <4>2
    <3>2. CASE i # Len(notes')
      <4>1. i \in 2 .. Len(notes) /\ i - 1 \in 1 .. Len(notes) /\ i \in 1 .. Len(notes)
        BY <1>8, <2>2, <3>2
      <4> QED BY <1>1, <1>8, <4>1 DEF NoteInv, NoteIsItsLastVersion
    <3> QED BY <3>1, <3>2
  <2> QED BY <2>1, <2>2 DEF NoteIsItsLastVersion
<1>10. content'.note \in Bodies /\ NoText \notin Requests /\ clock' \in Nat
  BY <1>1, <1>5, <1>6, AuditedAssumption DEF NoteInv
<1> QED BY <1>1, <1>4, <1>6, <1>8, <1>9, <1>10 DEF NoteInv

LEMMA NoteFailsKeeps ==
    ASSUME AuditInv, NEW r \in Requests, NoteFails(r)
    PROVE  NoteInv'
<1>1. /\ Set(r, Answers(r, "error")) /\ UNCHANGED <<content, notes, clock>>
      /\ NoteInv /\ DOMAIN request = Requests
  BY DEF NoteFails, AuditInv
<1>2. request'[r].pc # "write" /\ \A q \in Requests \ {r} : request'[q] = request[q]
  BY <1>1, RecPcs DEF Set
<1>3. NoteIsItsLastVersion'
  BY <1>1 DEF NoteIsItsLastVersion, NoteInv
<1>4. CASE request[r].pc = "write"
  <2>1. noteLock' = NoText /\ noteLock = r
    BY <1>1, <1>4 DEF NoteFails, NoteInv
  <2>2. \A q \in Requests : request'[q].pc # "write"
    BY <1>1, <1>2, <2>1 DEF NoteInv
  <2> QED BY <1>1, <1>3, <2>1, <2>2, AuditedAssumption DEF NoteInv
<1>5. CASE request[r].pc # "write"
  <2>1. NoteIdle(r)
    BY <1>1, <1>2, <1>5 DEF NoteFails, NoteIdle, NoteInv
  <2> QED BY <2>1, NoteKeeps
<1> QED BY <1>4, <1>5
\* A request before it comes.
LEMMA FreshOK ==
    ASSUME NEW rec, NEW intent, NEW isIn \in BOOLEAN, NEW told \in BOOLEAN,
           DOMAIN rec = ReqFields, rec.pc = "idle", rec.status = "none", rec.at = 0,
           rec.changed = TRUE, rec.committed = FALSE, rec.own = FALSE,
           intent = "none", ~isIn, ~told
    PROVE  ReqOK(rec, intent, isIn, told)
<1>1. ReqType(rec)
  <2>1. rec.pc \in ReqPcs /\ rec.status \in Statuses /\ rec.at \in Nat
    BY DEF ReqPcs, Statuses
  <2>2. rec.changed \in BOOLEAN /\ rec.committed \in BOOLEAN /\ rec.own \in BOOLEAN
    OBVIOUS
  <2> QED BY <2>1, <2>2 DEF ReqType
<1>2. rec.pc \notin {"route", "select", "lock", "write", "own", "answered", "done"}
  OBVIOUS
<1> QED BY <1>1, <1>2 DEF ReqOK

LEMMA AuditStart ==
    ASSUME AuditInit
    PROVE  AuditInv
<1>1. /\ content = Empty /\ notes = <<>> /\ noteLock = NoText /\ clock = 0
      /\ request = [r \in Requests |-> [pc |-> "idle", op |-> [kind |-> "none"], at |-> 0,
                      changed |-> TRUE, committed |-> FALSE, own |-> FALSE, status |-> "none"]]
      /\ audit = [r \in Requests |-> "none"]
      /\ dedicated = {} /\ did = {}
  BY DEF AuditInit
<1>2. ASSUME NEW r \in Requests
      PROVE  ReqOK(request[r], audit[r], r \in did, r \in dedicated) /\ request[r].pc = "idle"
  <2>1. /\ DOMAIN request[r] = ReqFields /\ request[r].pc = "idle" /\ request[r].status = "none"
        /\ request[r].at = 0 /\ request[r].changed = TRUE /\ request[r].committed = FALSE
        /\ request[r].own = FALSE /\ audit[r] = "none" /\ r \notin did /\ r \notin dedicated
    BY <1>1 DEF ReqFields
  <2> DEFINE isIn == r \in did
             told == r \in dedicated
  <2>2. isIn \in BOOLEAN /\ told \in BOOLEAN /\ ~isIn /\ ~told
    BY <2>1
  <2> HIDE DEF isIn, told
  <2>3. ReqOK(request[r], audit[r], isIn, told)
    BY <2>1, <2>2, FreshOK
  <2> QED BY <2>1, <2>3 DEF isIn, told
<1>3. NoteIsItsLastVersion /\ notes \in Seq([body : Bodies, at : Nat])
  BY <1>1 DEF NoteIsItsLastVersion
<1>4. DOMAIN content = Tables /\ content.note \in Bodies
  BY <1>1 DEF Empty, Tables, Bodies
<1>5. \A r \in Requests : request[r].pc # "write" /\ noteLock # r
  BY <1>1, <1>2, AuditedAssumption
<1>6. NoteInv
  BY <1>1, <1>3, <1>4, <1>5 DEF NoteInv
<1> QED BY <1>1, <1>2, <1>6 DEF AuditInv

LEMMA AuditStep ==
    ASSUME AuditInv, [AuditNext]_auditVars
    PROVE  AuditInv'
<1>1. ASSUME NEW r \in Requests,
             \/ \E op \in Mutations : Start(r, op)
             \/ State(r) \/ Refuse(r) \/ SelectTag(r)
             \/ BeginNote(r) \/ LockNote(r) \/ CommitNote(r) \/ NoteFails(r)
             \/ Enqueue(r) \/ Throw(r) \/ Commit(r) \/ WriteDedicatedAudit(r) \/ FinishIntent(r)
      PROVE  AuditInv'
  <2>1. ReqMoves(r)
    BY <1>1, StartIs, StateIs, RefuseIs, SelectTagIs, BeginNoteIs, LockNoteIs, CommitNoteIs,
       NoteFailsIs, EnqueueIs, ThrowIs, CommitIs, WriteDedicatedAuditIs, FinishIntentIs
  <2>2. NoteInv'
    BY <1>1, StepsLeaveTheNote, NoteKeeps, LockNoteKeeps, CommitNoteKeeps, NoteFailsKeeps
  <2> QED BY <2>1, <2>2, ReqStep DEF AllReqsOK, AuditInv
<1>2. CASE ApiDies
  <2>1. AllReqsOK' /\ \A r \in Requests : request'[r].pc # "write"
    BY <1>2, ApiDiesIs
  <2>2. noteLock' = NoText /\ UNCHANGED <<content, notes, clock>>
    BY <1>2 DEF ApiDies
  <2>3. NoteIsItsLastVersion'
    BY <2>2 DEF NoteIsItsLastVersion, AuditInv, NoteInv
  <2>4. NoteInv'
    BY <2>1, <2>2, <2>3, AuditedAssumption DEF AuditInv, NoteInv
  <2> QED BY <2>1, <2>4 DEF AllReqsOK, AuditInv
<1>3. CASE UNCHANGED auditVars
  BY <1>3 DEF auditVars, AuditInv, NoteInv, NoteIsItsLastVersion
<1> QED BY <1>1, <1>2, <1>3 DEF AuditNext

THEOREM AuditInvHolds == AuditSpec => []AuditInv
<1>1. AuditInit => AuditInv
  BY AuditStart
<1>2. AuditInv /\ [AuditNext]_auditVars => AuditInv'
  BY AuditStep
<1> QED BY <1>1, <1>2, PTL DEF AuditSpec

\* The audit log tells what was done, no less and no more: an intent is written
\* before the change, finished after it, and a crash or a lost answer in between
\* leaves it pending; only a route that ends in an error without having marked
\* its change as committed discards it.
THEOREM AuditIsWhole == AuditSpec => []AuditTellsTheTruth
<1>1. AuditInv => AuditTellsTheTruth
  <2> SUFFICES ASSUME AuditInv PROVE AuditTellsTheTruth
    OBVIOUS
  <2>1. ASSUME NEW r \in did, r \in Requests
        PROVE  Recorded(r) \/ (request[r].status = "error" /\ ~request[r].committed)
    BY <2>1, ReqIs DEF ReqOK, Recorded
  <2>2. ASSUME NEW r \in Requests, audit[r] = "success" \/ r \in dedicated
        PROVE  r \in did
    BY <2>2, ReqIs DEF ReqOK
  <2>3. did \subseteq Requests
    BY DEF AuditInv
  <2> QED BY <2>1, <2>2, <2>3 DEF AuditTellsTheTruth, ChangesAreRecorded, SuccessMeansChange
<1> QED BY <1>1, AuditInvHolds, PTL

\* Two PUTs of one note are one after the other, by the advisory lock of its slug:
\* the note is the last version of its history, and no version repeats the one
\* before it.
THEOREM NoteKeepsItsHistory == AuditSpec => []NoteIsItsLastVersion
<1>1. AuditInv => NoteIsItsLastVersion
  BY DEF AuditInv, NoteInv
<1> QED BY <1>1, AuditInvHolds, PTL

\* The audit log and the history of a note tell what is in the database, whatever dies
\* or fails between the statements of a route.
THEOREM RecordsAreTrue == AuditSpec => []RecordsTellTheTruth
<1>1. AuditTellsTheTruth /\ NoteIsItsLastVersion => RecordsTellTheTruth
  BY DEF RecordsTellTheTruth
<1> QED BY <1>1, AuditIsWhole, NoteKeepsItsHistory, PTL

-----------------------------------------------------------------------------
(* The README of a prefix: PUTs of it, and the listings of the prefix.       *)

HoldingPut == {"write", "drop", "record"}
LinedPut == {"line"} \cup HoldingPut

PutRec == [pc : {"idle", "same", "ok", "meta_stale", "error"} \cup LinedPut, body : Texts \cup {Nobody}]
ReadmeRec == [body : Texts \cup {Nobody}, by : Editors \cup {Nobody}, n : Nat]
LoadRec == [pc : {"none", "look", "page", "keep"}, scope : Scopes \cup {Nobody}, refresh : BOOLEAN,
            conf : Nat, late : BOOLEAN, n : Nat, crossed : BOOLEAN, aborted : BOOLEAN,
            shared : BOOLEAN]
RowRec == [n : Nat, conf : Nat, late : BOOLEAN, crossed : BOOLEAN, kept : BOOLEAN]
GetRec == [pc : {"idle", "client", "waiting", "done"}, on : Lists \cup {Nobody},
           scope : Scopes \cup {Nobody}, refresh : BOOLEAN, since : Int, late : BOOLEAN]

\* A PUT stands in the line of its README until it is answered.
Lined(put) == {e \in Editors : put[e].pc \in LinedPut}
HoldsLine(put) == {e \in Editors : put[e].pc \in HoldingPut}
WriteLineInv(tail, put) == ChainInv(Editors, tail, Lined(put), HoldsLine(put))

\* Between the write and the record nobody else has written; and the writer that
\* is answered with "ok" is the last of the history.
WriterInv(obj, hist, put) ==
    \A e \in Editors :
       /\ put[e].pc # "idle" => put[e].body \in Texts
       /\ put[e].pc \in {"drop", "record"} => obj.by = e
       /\ obj.by = e => /\ obj.body = put[e].body
                        /\ put[e].pc \in {"drop", "record", "ok", "meta_stale", "error"}
                        /\ put[e].pc = "ok" => /\ Len(hist) > 0
                                               /\ hist[Len(hist)] = [by |-> e, body |-> obj.body]

PutsInv ==
    /\ readmePut \in [Editors -> PutRec]
    /\ readme \in ReadmeRec
    /\ history \in Seq([by : Editors, body : Texts])
    /\ WriteLineInv(writeLine, readmePut)
    /\ WriterInv(readme, history, readmePut)

\* What a load has read, or a row holds, is what it would read now, unless a
\* DELETE ran meanwhile or is still to come, or its GET waited for its client then.
HasNow(what, version, dropping) == dropping = 0 /\ ~what.late => what.conf = version
IsNow(what, written, version, undropped, dropping) ==
    /\ ~undropped => what.n = written
    /\ HasNow(what, version, dropping)

LoadsAndRows(rows, loads, written, version, undropped, dropping) ==
    /\ \A s \in Scopes : rows[s].kept /\ ~rows[s].crossed =>
          IsNow(rows[s], written, version, undropped, dropping)
    /\ \A l \in Lists : loads[l].pc # "none" /\ ~loads[l].crossed =>
          /\ ~undropped /\ loads[l].pc = "keep" => loads[l].n = written
          /\ HasNow(loads[l], version, dropping)

Undropped(put) == \E e \in Editors : put[e].pc = "drop"

ListsInv ==
    /\ conn \in [version : Nat, dropping : Nat]
    /\ missed \in BOOLEAN
    /\ listing \in [Scopes -> RowRec]
    /\ loading \in [Lists -> LoadRec]
    /\ missed \/ LoadsAndRows(listing, loading, readme.n, conn.version, Undropped(readmePut), conn.dropping)

\* A GET that has waited for its client through no DELETE gets none that is older
\* than the connection, unless a DELETE is still to come.
GetsInv ==
    /\ lister \in [Lists -> GetRec]
    /\ \A l \in Lists : lister[l].pc = "client" /\ ~lister[l].late /\ conn.dropping = 0 =>
          lister[l].since = conn.version

ReadmeInv == PutsInv /\ ListsInv /\ GetsInv

-----------------------------------------------------------------------------
(* The line.                                                                  *)

\* What a step of e may do to it.
LEMMA WriteLineSteps ==
    ASSUME NEW tail, NEW put \in [Editors -> PutRec], WriteLineInv(tail, put),
           NEW e \in Editors, NEW rec \in PutRec, NEW next,
           \/ next = Append(tail, e) /\ put[e].pc \notin LinedPut /\ rec.pc = "line"
           \/ next = Tail(tail) /\ Len(tail) > 0 /\ tail[1] = e /\ rec.pc \notin LinedPut
           \/ /\ next = tail /\ Len(tail) > 0 /\ tail[1] = e
              /\ put[e].pc \in LinedPut /\ rec.pc \in LinedPut
    PROVE  WriteLineInv(next, [put EXCEPT ![e] = rec])
<1> DEFINE new == [put EXCEPT ![e] = rec]
           in == Lined(put)
           hold == HoldsLine(put)
<1>1. new[e] = rec /\ \A x \in Editors \ {e} : new[x] = put[x]
  OBVIOUS
<1>2. ChainInv(Editors, tail, in, hold)
  BY DEF WriteLineInv
<1> HIDE DEF new
<1>3. CASE next = Append(tail, e) /\ put[e].pc \notin LinedPut /\ rec.pc = "line"
  <2>1. /\ e \in Editors \ in
        /\ Lined(new) = in \cup {e} /\ HoldsLine(new) = hold
    BY <1>1, <1>3 DEF Lined, HoldsLine, LinedPut, HoldingPut
  <2> HIDE DEF in, hold
  <2>2. ChainInv(Editors, Append(tail, e), in \cup {e}, hold)
    BY <1>2, <2>1, ChainJoins
  <2> QED BY <1>3, <2>1, <2>2 DEF WriteLineInv, new
<1>4. CASE next = Tail(tail) /\ Len(tail) > 0 /\ tail[1] = e /\ rec.pc \notin LinedPut
  <2>1. \A x \in hold : x = e
    BY <1>2, <1>4 DEF ChainInv
  <2>2. Lined(new) = in \ {e} /\ HoldsLine(new) = {}
    BY <1>1, <1>4, <2>1 DEF Lined, HoldsLine, LinedPut
  <2> HIDE DEF in, hold
  <2>3. ChainInv(Editors, Tail(tail), in \ {e}, {})
    BY <1>2, <1>4, ChainLeaves
  <2> QED BY <1>4, <2>2, <2>3 DEF WriteLineInv, new
<1>5. CASE /\ next = tail /\ Len(tail) > 0 /\ tail[1] = e
           /\ put[e].pc \in LinedPut /\ rec.pc \in LinedPut
  <2>1. /\ e \in in /\ Lined(new) = in
        /\ HoldsLine(new) \subseteq hold \cup {e}
    BY <1>1, <1>5 DEF Lined, HoldsLine
  <2> DEFINE after == HoldsLine(new)
  <2> HIDE DEF in, hold, after
  <2>2. ChainInv(Editors, tail, in, after)
    BY <1>2, <1>5, <2>1, ChainKeeps DEF after
  <2> QED BY <1>5, <2>1, <2>2 DEF WriteLineInv, new, after
<1> QED BY <1>3, <1>4, <1>5

LEMMA LockIsAlone ==
    ASSUME PutsInv, NEW e \in Editors, NEW pc \in LinedPut, HasLock(e, pc)
    PROVE  /\ Len(writeLine) > 0 /\ writeLine[1] = e
           /\ readmePut[e].pc = pc
           /\ \A x \in Editors \ {e} : readmePut[x].pc \notin HoldingPut
<1>1. e \in Lined(readmePut) /\ Head(writeLine) = e /\ readmePut[e].pc = pc
  BY DEF HasLock, Lined
<1>2. ChainInv(Editors, writeLine, Lined(readmePut), HoldsLine(readmePut))
  BY DEF PutsInv, WriteLineInv
<1>3. Len(writeLine) > 0 /\ writeLine[1] = e
  BY <1>1, <1>2, ChainHead
<1>4. \A x \in HoldsLine(readmePut) : x = e
  BY <1>2, <1>3 DEF ChainInv
<1> QED BY <1>1, <1>3, <1>4 DEF HoldsLine

-----------------------------------------------------------------------------
(* What a PUT does.                                                           *)

LEMMA PutSteps ==
    ASSUME PutsInv, NEW e \in Editors,
           \/ \E text \in Texts : LineUp(e, text)
           \/ SameBody(e) \/ Differs(e) \/ WriteObject(e) \/ ObjectFails(e)
           \/ InvalidateScope(e) \/ Record(e) \/ RecordFails(e)
    PROVE  PutsInv'
<1> DEFINE before == readmePut[e]
<1>1. /\ readmePut \in [Editors -> PutRec] /\ readme \in ReadmeRec
      /\ history \in Seq([by : Editors, body : Texts])
      /\ WriteLineInv(writeLine, readmePut)
      /\ WriterInv(readme, history, readmePut)
  BY DEF PutsInv
<1>2. before \in PutRec /\ before.body \in Texts \cup {Nobody}
  BY <1>1 DEF PutRec
<1>3. ASSUME NEW text \in Texts, LineUp(e, text) PROVE PutsInv'
  <2> DEFINE rec == [pc |-> "line", body |-> text]
  <2>1. /\ readmePut' = [readmePut EXCEPT ![e] = rec] /\ writeLine' = Append(writeLine, e)
        /\ readme' = readme /\ history' = history /\ before.pc = "idle"
    BY <1>3 DEF LineUp
  <2>2. rec \in PutRec /\ rec.pc = "line" /\ rec.body \in Texts /\ before.pc \notin LinedPut
    BY <2>1 DEF PutRec, LinedPut, HoldingPut
  <2> HIDE DEF rec
  <2>3. readmePut' \in [Editors -> PutRec] /\ WriteLineInv(writeLine', readmePut')
    BY <1>1, <2>1, <2>2, WriteLineSteps
  <2>4. readmePut'[e] = rec /\ \A x \in Editors \ {e} : readmePut'[x] = readmePut[x]
    BY <1>1, <2>1
  <2>5. readme.by # e
    BY <1>1, <2>1 DEF WriterInv
  <2>6. WriterInv(readme', history', readmePut')
    BY <1>1, <2>1, <2>2, <2>4, <2>5 DEF WriterInv
  <2> QED BY <1>1, <2>1, <2>3, <2>6 DEF PutsInv
<1>4. ASSUME NEW pc \in LinedPut, HasLock(e, pc), NEW to, Goes(e, to),
             [before EXCEPT !.pc = to] \in PutRec,
             \/ to \notin LinedPut /\ Unlocks
             \/ to \in LinedPut /\ UNCHANGED writeLine
      PROVE  /\ readmePut' \in [Editors -> PutRec] /\ WriteLineInv(writeLine', readmePut')
             /\ readmePut'[e].pc = to /\ readmePut'[e].body = before.body
             /\ \A x \in Editors \ {e} : readmePut'[x] = readmePut[x]
  <2> DEFINE rec == [before EXCEPT !.pc = to]
  <2>1. readmePut' = [readmePut EXCEPT ![e] = rec] /\ rec.pc = to /\ rec.body = before.body
    BY <1>1, <1>2, <1>4 DEF Goes, PutRec
  <2>2. before.pc \in LinedPut /\ Len(writeLine) > 0 /\ writeLine[1] = e
    BY <1>4, LockIsAlone
  <2> HIDE DEF rec
  <2>3. readmePut' \in [Editors -> PutRec]
    BY <1>1, <1>4, <2>1 DEF rec
  <2>4. WriteLineInv(writeLine', readmePut')
    <3>1. rec \in PutRec
      BY <1>4 DEF rec
    <3>2. CASE to \notin LinedPut /\ Unlocks
      BY <1>1, <2>1, <2>2, <3>1, <3>2, WriteLineSteps DEF Unlocks
    <3>3. CASE to \in LinedPut /\ UNCHANGED writeLine
      BY <1>1, <2>1, <2>2, <3>1, <3>3, WriteLineSteps
    <3> QED BY <1>4, <3>2, <3>3
  <2> QED BY <1>1, <2>1, <2>3, <2>4
<1>5. ASSUME NEW to \in {"same", "ok", "meta_stale", "error"} \cup LinedPut
      PROVE  [before EXCEPT !.pc = to] \in PutRec
  BY <1>2 DEF PutRec
<1>6. ASSUME NEW pc \in LinedPut, readmePut[e].pc = pc PROVE before.body \in Texts /\ pc # "idle"
  BY <1>1, <1>6 DEF WriterInv, LinedPut, HoldingPut
<1> HIDE DEF before
<1>7. CASE SameBody(e)
  <2>1. HasLock(e, "line") /\ Goes(e, "same") /\ Unlocks /\ readme' = readme /\ history' = history
    BY <1>7 DEF SameBody
  <2>2. "line" \in LinedPut /\ "same" \notin LinedPut
    BY DEF LinedPut, HoldingPut
  <2>3. /\ readmePut' \in [Editors -> PutRec] /\ WriteLineInv(writeLine', readmePut')
        /\ readmePut'[e].pc = "same" /\ readmePut'[e].body = before.body
        /\ \A x \in Editors \ {e} : readmePut'[x] = readmePut[x]
    BY <1>4, <1>5, <2>1, <2>2
  <2>4. readmePut[e].pc = "line" /\ before.body \in Texts
    BY <1>6, <2>1, <2>2 DEF HasLock
  <2>5. readme.by # e
    BY <1>1, <2>4 DEF WriterInv
  <2>6. WriterInv(readme', history', readmePut')
    BY <1>1, <2>1, <2>3, <2>4, <2>5 DEF WriterInv
  <2> QED BY <1>1, <2>1, <2>3, <2>6 DEF PutsInv
<1>8. CASE Differs(e)
  <2>1. HasLock(e, "line") /\ Goes(e, "write") /\ UNCHANGED writeLine /\ readme' = readme /\ history' = history
    BY <1>8 DEF Differs
  <2>2. "line" \in LinedPut /\ "write" \in LinedPut
    BY DEF LinedPut, HoldingPut
  <2>3. /\ readmePut' \in [Editors -> PutRec] /\ WriteLineInv(writeLine', readmePut')
        /\ readmePut'[e].pc = "write" /\ readmePut'[e].body = before.body
        /\ \A x \in Editors \ {e} : readmePut'[x] = readmePut[x]
    BY <1>4, <1>5, <2>1, <2>2
  <2>4. readmePut[e].pc = "line" /\ before.body \in Texts
    BY <1>6, <2>1, <2>2 DEF HasLock
  <2>5. readme.by # e
    BY <1>1, <2>4 DEF WriterInv
  <2>6. WriterInv(readme', history', readmePut')
    BY <1>1, <2>1, <2>3, <2>4, <2>5 DEF WriterInv
  <2> QED BY <1>1, <2>1, <2>3, <2>6 DEF PutsInv
<1>9. ASSUME HasLock(e, "write"), readme' = Written(e)
      PROVE  /\ readme' \in ReadmeRec /\ readme'.by = e /\ readme'.body = before.body
             /\ \A x \in Editors \ {e} : readmePut[x].pc \notin {"drop", "record"}
  <2>1. "write" \in LinedPut
    BY DEF LinedPut, HoldingPut
  <2>2. \A x \in Editors \ {e} : readmePut[x].pc \notin HoldingPut
    BY <1>9, <2>1, LockIsAlone
  <2> QED BY <1>1, <1>2, <1>9, <2>2 DEF Written, ReadmeRec, HoldingPut, before
<1>10. CASE WriteObject(e)
  <2>1. HasLock(e, "write") /\ readme' = Written(e) /\ Goes(e, "drop") /\ UNCHANGED writeLine /\ history' = history
    BY <1>10 DEF WriteObject
  <2>2. "write" \in LinedPut /\ "drop" \in LinedPut
    BY DEF LinedPut, HoldingPut
  <2>3. /\ readmePut' \in [Editors -> PutRec] /\ WriteLineInv(writeLine', readmePut')
        /\ readmePut'[e].pc = "drop" /\ readmePut'[e].body = before.body
        /\ \A x \in Editors \ {e} : readmePut'[x] = readmePut[x]
    BY <1>4, <1>5, <2>1, <2>2
  <2>4. before.body \in Texts
    BY <1>6, <2>1, <2>2 DEF HasLock
  <2>5. WriterInv(readme', history', readmePut')
    BY <1>1, <1>9, <2>1, <2>3, <2>4 DEF WriterInv
  <2> QED BY <1>1, <1>9, <2>1, <2>3, <2>5 DEF PutsInv
<1>11. CASE ObjectFails(e)
  <2>1. PICK pc \in {"line", "write"} : /\ HasLock(e, pc) /\ Goes(e, "error") /\ Unlocks /\ history' = history
                                        /\ readme' = readme \/ (pc = "write" /\ readme' = Written(e))
    BY <1>11 DEF ObjectFails, HasLock
  <2>2. pc \in LinedPut /\ "error" \notin LinedPut /\ pc \notin {"drop", "record"}
    BY DEF LinedPut, HoldingPut
  <2>3. /\ readmePut' \in [Editors -> PutRec] /\ WriteLineInv(writeLine', readmePut')
        /\ readmePut'[e].pc = "error" /\ readmePut'[e].body = before.body
        /\ \A x \in Editors \ {e} : readmePut'[x] = readmePut[x]
    BY <1>4, <1>5, <2>1, <2>2
  <2>4. before.body \in Texts /\ readmePut[e].pc = pc
    BY <1>6, <2>1, <2>2 DEF HasLock
  <2>5. WriterInv(readme', history', readmePut') /\ readme' \in ReadmeRec
    <3>1. CASE readme' = readme
      <4>1. readme.by # e
        BY <1>1, <2>4 DEF WriterInv
      <4> QED BY <1>1, <2>1, <2>3, <2>4, <3>1, <4>1 DEF WriterInv
    <3>2. CASE pc = "write" /\ readme' = Written(e)
      BY <1>1, <1>9, <2>1, <2>3, <2>4, <3>2 DEF WriterInv
    <3> QED BY <2>1, <3>1, <3>2
  <2> QED BY <1>1, <2>1, <2>3, <2>5 DEF PutsInv
<1>12. CASE InvalidateScope(e)
  <2>1. HasLock(e, "drop") /\ Goes(e, "record") /\ UNCHANGED <<writeLine, readme, history>>
    BY <1>12 DEF InvalidateScope
  <2>2. "drop" \in LinedPut /\ "record" \in LinedPut
    BY DEF LinedPut, HoldingPut
  <2>3. /\ readmePut' \in [Editors -> PutRec] /\ WriteLineInv(writeLine', readmePut')
        /\ readmePut'[e].pc = "record" /\ readmePut'[e].body = before.body
        /\ \A x \in Editors \ {e} : readmePut'[x] = readmePut[x]
    BY <1>4, <1>5, <2>1, <2>2
  <2>4. before.body \in Texts /\ readmePut[e].pc = "drop" /\ before = readmePut[e]
    BY <1>6, <2>1, <2>2 DEF HasLock, before
  <2>5. WriterInv(readme', history', readmePut')
    BY <1>1, <2>1, <2>3, <2>4 DEF WriterInv
  <2> QED BY <1>1, <2>1, <2>3, <2>5 DEF PutsInv
<1>13. CASE Record(e)
  <2> DEFINE row == [by |-> e, body |-> readmePut[e].body]
  <2>1. /\ HasLock(e, "record") /\ Goes(e, "ok") /\ Unlocks /\ readme' = readme
        /\ history' = Append(history, row)
    BY <1>13 DEF Record
  <2>2. "record" \in LinedPut /\ "ok" \notin LinedPut
    BY DEF LinedPut, HoldingPut
  <2>3. /\ readmePut' \in [Editors -> PutRec] /\ WriteLineInv(writeLine', readmePut')
        /\ readmePut'[e].pc = "ok" /\ readmePut'[e].body = before.body
        /\ \A x \in Editors \ {e} : readmePut'[x] = readmePut[x]
    BY <1>4, <1>5, <2>1, <2>2
  <2>4. before.body \in Texts /\ readmePut[e].pc = "record" /\ before = readmePut[e]
    BY <1>6, <2>1, <2>2 DEF HasLock, before
  <2>5. readme.by = e /\ readme.body = before.body /\ row = [by |-> e, body |-> readme.body]
        /\ row \in [by : Editors, body : Texts]
    BY <1>1, <2>4 DEF WriterInv
  <2> HIDE DEF row
  <2>6. /\ history' \in Seq([by : Editors, body : Texts])
        /\ Len(history') > 0 /\ history'[Len(history')] = row
    BY <1>1, <2>1, <2>5
  <2>7. WriterInv(readme', history', readmePut')
    BY <1>1, <2>1, <2>3, <2>4, <2>5, <2>6 DEF WriterInv
  <2> QED BY <1>1, <2>1, <2>3, <2>6, <2>7 DEF PutsInv
<1>14. CASE RecordFails(e)
  <2>1. HasLock(e, "record") /\ Goes(e, "meta_stale") /\ Unlocks /\ readme' = readme /\ history' = history
    BY <1>14 DEF RecordFails
  <2>2. "record" \in LinedPut /\ "meta_stale" \notin LinedPut
    BY DEF LinedPut, HoldingPut
  <2>3. /\ readmePut' \in [Editors -> PutRec] /\ WriteLineInv(writeLine', readmePut')
        /\ readmePut'[e].pc = "meta_stale" /\ readmePut'[e].body = before.body
        /\ \A x \in Editors \ {e} : readmePut'[x] = readmePut[x]
    BY <1>4, <1>5, <2>1, <2>2
  <2>4. before.body \in Texts /\ readmePut[e].pc = "record" /\ before = readmePut[e]
    BY <1>6, <2>1, <2>2 DEF HasLock, before
  <2>5. WriterInv(readme', history', readmePut')
    BY <1>1, <2>1, <2>3, <2>4 DEF WriterInv
  <2> QED BY <1>1, <2>1, <2>3, <2>5 DEF PutsInv
<1> QED BY <1>3, <1>7, <1>8, <1>10, <1>11, <1>12, <1>13, <1>14

-----------------------------------------------------------------------------
(* What the listings see.                                                     *)

\* A DELETE of every cached listing, or one that failed.
LEMMA DropsAllListings ==
    ASSUME ListsInv, Drops, readme' = readme \/ readme'.n \in Nat,
           NEW newDropping \in Nat, conn' = [conn EXCEPT !.dropping = newDropping]
    PROVE  ListsInv'
<1>1. /\ conn \in [version : Nat, dropping : Nat] /\ missed \in BOOLEAN
      /\ listing \in [Scopes -> RowRec] /\ loading \in [Lists -> LoadRec]
  BY DEF ListsInv
<1>2. conn' \in [version : Nat, dropping : Nat]
  BY <1>1
<1>3. CASE missed' = TRUE /\ UNCHANGED <<listing, loading>>
  BY <1>1, <1>2, <1>3 DEF ListsInv
<1>4. CASE listing' = [s \in Scopes |-> NoRow] /\ Crosses /\ UNCHANGED missed
  <2>1. listing' \in [Scopes -> RowRec] /\ \A s \in Scopes : ~listing'[s].kept
    BY <1>4 DEF NoRow, RowRec
  <2>2. ASSUME NEW l \in Lists
        PROVE  /\ loading'[l] \in LoadRec /\ loading'[l].pc = loading[l].pc
               /\ loading'[l].pc # "none" => loading'[l].crossed = TRUE
    <3>1. loading'[l] = [loading[l] EXCEPT !.crossed = loading[l].pc # "none"] /\ loading[l] \in LoadRec
      BY <1>1, <1>4 DEF Crosses
    <3>2. (loading[l].pc # "none") \in BOOLEAN
      OBVIOUS
    <3> QED BY <3>1, <3>2 DEF LoadRec
  <2>3. loading' \in [Lists -> LoadRec]
    BY <1>4, <2>2 DEF Crosses
  <2>4. LoadsAndRows(listing', loading', readme'.n, conn'.version, Undropped(readmePut'), conn'.dropping)
    BY <2>1, <2>2 DEF LoadsAndRows
  <2>5. LoadsAndRows(listing, loading, readme.n, conn.version, Undropped(readmePut), conn.dropping)'
    BY <2>4
  <2> QED BY <1>1, <1>2, <1>4, <2>1, <2>3, <2>5 DEF ListsInv
<1> QED BY <1>3, <1>4 DEF Drops

\* A step that writes nothing and leaves the rows and the loads alone.
LEMMA ListsAreLeft ==
    ASSUME ListsInv, UNCHANGED <<readme, conn, listing, loading, missed>>,
           Undropped(readmePut) => Undropped(readmePut')
    PROVE  ListsInv'
BY DEF ListsInv, LoadsAndRows, IsNow, HasNow

LEMMA PutsSeenByLists ==
    ASSUME ReadmeInv, NEW e \in Editors,
           \/ \E text \in Texts : LineUp(e, text)
           \/ SameBody(e) \/ Differs(e) \/ WriteObject(e) \/ ObjectFails(e)
           \/ InvalidateScope(e) \/ Record(e) \/ RecordFails(e)
    PROVE  ListsInv'
<1>1. /\ PutsInv /\ ListsInv /\ readmePut \in [Editors -> PutRec] /\ readme \in ReadmeRec
  BY DEF ReadmeInv, PutsInv
<1>2. /\ conn \in [version : Nat, dropping : Nat] /\ missed \in BOOLEAN
      /\ listing \in [Scopes -> RowRec] /\ loading \in [Lists -> LoadRec]
  BY <1>1 DEF ListsInv
<1>3. ASSUME NEW rec, readmePut' = [readmePut EXCEPT ![e] = rec], readmePut[e].pc # "drop", Undropped(readmePut)
      PROVE  Undropped(readmePut')
  <2>1. PICK x \in Editors : readmePut[x].pc = "drop"
    BY <1>3 DEF Undropped
  <2>2. x # e /\ readmePut'[x] = readmePut[x]
    BY <1>1, <1>3, <2>1
  <2> QED BY <2>1, <2>2 DEF Undropped
<1>4. CASE \/ \E text \in Texts : LineUp(e, text)
           \/ SameBody(e) \/ Differs(e) \/ Record(e) \/ RecordFails(e)
  <2>1. /\ UNCHANGED <<readme, conn, listing, loading, missed>> /\ readmePut[e].pc # "drop"
        /\ \E rec : readmePut' = [readmePut EXCEPT ![e] = rec]
    BY <1>4 DEF LineUp, SameBody, Differs, Record, RecordFails, Goes, HasLock, listVars
  <2> QED BY <1>1, <1>3, <2>1, ListsAreLeft
<1>5. CASE WriteObject(e)
  <2>1. /\ UNCHANGED <<conn, listing, loading, missed>> /\ readmePut'[e].pc = "drop"
    BY <1>1, <1>5 DEF WriteObject, Goes, listVars, PutRec
  <2>2. Undropped(readmePut')
    BY <2>1 DEF Undropped
  <2>3. LoadsAndRows(listing, loading, readme.n, conn.version, Undropped(readmePut), conn.dropping)
        => LoadsAndRows(listing', loading', readme'.n, conn'.version, Undropped(readmePut'), conn'.dropping)
    BY <2>1, <2>2 DEF LoadsAndRows, IsNow, HasNow
  <2>4. missed' \/ LoadsAndRows(listing, loading, readme.n, conn.version, Undropped(readmePut), conn.dropping)'
    BY <1>1, <2>1, <2>3 DEF ListsInv
  <2> QED BY <1>2, <2>1, <2>4 DEF ListsInv
<1>6. CASE ObjectFails(e)
  <2>1. CASE UNCHANGED <<readme, missed>>
    <3>1. /\ UNCHANGED <<readme, conn, listing, loading, missed>> /\ readmePut[e].pc # "drop"
          /\ readmePut' = [readmePut EXCEPT ![e].pc = "error"]
      BY <1>6, <2>1 DEF ObjectFails, Goes, HasLock, listVars
    <3> QED BY <1>1, <1>3, <3>1, ListsAreLeft
  <2>2. CASE missed' = TRUE
    BY <1>2, <1>6, <2>2 DEF ObjectFails, listVars, ListsInv
  <2> QED BY <1>6, <2>1, <2>2 DEF ObjectFails
<1>7. CASE InvalidateScope(e)
  <2>1. conn' = conn /\ conn.dropping \in Nat /\ conn' = [conn EXCEPT !.dropping = conn.dropping] /\ Drops
        /\ readme' = readme
    BY <1>2, <1>7 DEF InvalidateScope
  <2> QED BY <1>1, <2>1, DropsAllListings
<1> QED BY <1>4, <1>5, <1>6, <1>7

\* A row that a load has stored.
KeptOf(row, load) ==
    /\ load.pc = "keep" /\ ~load.crossed
    /\ row.n = load.n /\ row.conf = load.conf /\ row.late = load.late

\* A step of a listing: what it changes of the loads and the rows.
LEMMA ListsMove ==
    ASSUME ListsInv, UNCHANGED <<readmeVars, conn, missed>>,
           listing' \in [Scopes -> RowRec], loading' \in [Lists -> LoadRec],
           \A s \in Scopes : listing'[s].kept /\ ~listing'[s].crossed =>
              \/ listing'[s] = listing[s]
              \/ \E l \in Lists : KeptOf(listing'[s], loading[l]),
           \A l \in Lists : loading'[l].pc # "none" /\ ~loading'[l].crossed =>
              \/ /\ loading[l].pc # "none" /\ ~loading[l].crossed
                 /\ loading'[l].conf = loading[l].conf /\ loading'[l].late = loading[l].late
                 /\ loading'[l].pc = "keep" => \/ loading'[l].n = readme.n
                                               \/ loading[l].pc = "keep" /\ loading'[l].n = loading[l].n
              \/ loading'[l].pc # "keep" /\ HasNow(loading'[l], conn.version, conn.dropping)
    PROVE  ListsInv'
<1> DEFINE undropped == Undropped(readmePut)
<1>1. conn' = conn /\ missed' = missed /\ readme' = readme /\ Undropped(readmePut)' = undropped
  BY DEF readmeVars, Undropped
<1>2. ASSUME LoadsAndRows(listing, loading, readme.n, conn.version, undropped, conn.dropping)
      PROVE  LoadsAndRows(listing', loading', readme.n, conn.version, undropped, conn.dropping)
  <2> HIDE DEF undropped
  <2>1. ASSUME NEW s \in Scopes, listing'[s].kept, ~listing'[s].crossed
        PROVE  IsNow(listing'[s], readme.n, conn.version, undropped, conn.dropping)
    <3>1. CASE listing'[s] = listing[s]
      BY <1>2, <2>1, <3>1 DEF LoadsAndRows
    <3>2. CASE \E l \in Lists : KeptOf(listing'[s], loading[l])
      BY <1>2, <2>1, <3>2 DEF LoadsAndRows, IsNow, HasNow, KeptOf
    <3> QED BY <2>1, <3>1, <3>2
  <2>2. ASSUME NEW l \in Lists, loading'[l].pc # "none", ~loading'[l].crossed
        PROVE  /\ ~undropped /\ loading'[l].pc = "keep" => loading'[l].n = readme.n
               /\ HasNow(loading'[l], conn.version, conn.dropping)
    BY <1>2, <2>2 DEF LoadsAndRows, HasNow
  <2> QED BY <2>1, <2>2 DEF LoadsAndRows
<1> QED BY <1>1, <1>2 DEF ListsInv

LEMMA EndLoadMoves ==
    ASSUME ListsInv, NEW l \in Lists, EndLoad(l)
    PROVE  /\ loading' \in [Lists -> LoadRec]
           /\ loading'[l].pc = "none" /\ \A m \in Lists \ {l} : loading'[m] = loading[m]
<1>1. NoLoad \in LoadRec /\ NoLoad.pc = "none"
  BY DEF NoLoad, LoadRec
<1> QED BY <1>1 DEF EndLoad, ListsInv

\* The load that a GET starts with a client it got.
LEMMA NewLoads ==
    ASSUME NEW get \in GetRec, NEW v \in Nat
    PROVE  LET new == NewLoad(get, v)
           IN  new \in LoadRec /\ new.pc # "keep" /\ new.conf = v /\ new.late = get.late
<1>1. /\ get.scope \in Scopes \cup {Nobody} /\ get.refresh \in BOOLEAN /\ get.late \in BOOLEAN
  BY DEF GetRec
<1> DEFINE first == IF get.refresh THEN "page" ELSE "look"
           new == [NoLoad EXCEPT !.pc = first, !.scope = get.scope, !.refresh = get.refresh,
                                 !.conf = v, !.late = get.late, !.shared = TRUE]
<1>2. first \in {"look", "page"}
  OBVIOUS
<1>3. NewLoad(get, v) = new
  BY DEF NewLoad
<1>4. new \in LoadRec /\ new.pc = first /\ new.conf = v /\ new.late = get.late
  <2> DEFINE scope == get.scope
             refresh == get.refresh
             late == get.late
  <2>1. scope \in Scopes \cup {Nobody} /\ refresh \in BOOLEAN /\ late \in BOOLEAN
    BY <1>1
  <2> HIDE DEF first, scope, refresh, late
  <2>2. LET made == [NoLoad EXCEPT !.pc = first, !.scope = scope, !.refresh = refresh,
                                   !.conf = v, !.late = late, !.shared = TRUE]
        IN  made \in LoadRec /\ made.pc = first /\ made.conf = v /\ made.late = late
    BY <1>2, <2>1 DEF NoLoad, LoadRec
  <2> QED BY <2>2 DEF scope, refresh, late
<1> HIDE DEF first, new
<1> QED BY <1>2, <1>3, <1>4

LEMMA ListSteps ==
    ASSUME ListsInv, GetsInv, NEW l \in Lists,
           \/ GotClient(l) \/ LookUp(l) \/ ListPage(l) \/ ListFails(l) \/ Keep(l) \/ Leave(l)
           \/ \E s \in Scopes : Expire(s),
           readme.n \in Nat
    PROVE  ListsInv'
<1>1. /\ conn \in [version : Nat, dropping : Nat] /\ missed \in BOOLEAN
      /\ listing \in [Scopes -> RowRec] /\ loading \in [Lists -> LoadRec]
  BY DEF ListsInv
<1>2. CASE GotClient(l)
  <2>1. /\ UNCHANGED <<readmeVars, conn, missed, listing>> /\ lister[l].pc = "client"
        /\ \/ loading' = loading
           \/ \E v \in 0..conn.version :
                 /\ v >= lister[l].since
                 /\ loading' = [loading EXCEPT ![l] = NewLoad(lister[l], v)]
    BY <1>2 DEF GotClient
  <2>2. CASE loading' = loading
    BY <1>1, <2>1, <2>2, ListsMove
  <2>3. ASSUME NEW v \in 0..conn.version, v >= lister[l].since,
               loading' = [loading EXCEPT ![l] = NewLoad(lister[l], v)]
        PROVE  ListsInv'
    <3> DEFINE new == NewLoad(lister[l], v)
    <3>1. lister[l] \in GetRec
      BY DEF GetsInv
    <3>2. new \in LoadRec /\ new.pc # "keep" /\ new.conf = v /\ new.late = lister[l].late
      <4>1. v \in Nat
        BY <1>1
      <4> QED BY <3>1, <4>1, NewLoads
    <3>3. HasNow(new, conn.version, conn.dropping)
      <4>1. ASSUME conn.dropping = 0, ~lister[l].late PROVE v = conn.version
        <5>1. lister[l].since = conn.version
          BY <2>1, <4>1 DEF GetsInv
        <5> QED BY <1>1, <2>3, <5>1
      <4> HIDE DEF new
      <4> QED BY <3>2, <4>1 DEF HasNow
    <3> HIDE DEF new
    <3>4. /\ loading' \in [Lists -> LoadRec]
          /\ \A m \in Lists : loading'[m] = loading[m] \/ loading'[m] = new
      BY <1>1, <2>3, <3>2 DEF new
    <3> QED BY <1>1, <2>1, <3>2, <3>3, <3>4, ListsMove
  <2> QED BY <2>1, <2>2, <2>3
<1>3. CASE LookUp(l)
  <2>1. UNCHANGED <<readmeVars, conn, missed, listing>>
    BY <1>3 DEF LookUp
  <2>2. CASE EndLoad(l)
    BY <1>1, <2>1, <2>2, EndLoadMoves, ListsMove
  <2>3. CASE loading[l].pc = "look" /\ loading' = [loading EXCEPT ![l].pc = "page"]
    <3>1. /\ loading' \in [Lists -> LoadRec] /\ loading'[l].pc = "page"
          /\ loading'[l].crossed = loading[l].crossed /\ loading'[l].conf = loading[l].conf
          /\ loading'[l].late = loading[l].late
          /\ \A m \in Lists \ {l} : loading'[m] = loading[m]
      BY <1>1, <2>3 DEF LoadRec
    <3> QED BY <1>1, <2>1, <2>3, <3>1, ListsMove
  <2> QED BY <1>3, <2>2, <2>3 DEF LookUp
<1>4. CASE ListPage(l)
  <2>1. UNCHANGED <<readmeVars, conn, missed, listing>> /\ loading[l].pc = "page"
        /\ loading' = [loading EXCEPT ![l].pc = "keep", ![l].n = readme.n]
    BY <1>4 DEF ListPage
  <2> DEFINE paged == [loading[l] EXCEPT !.pc = "keep", !.n = readme.n]
  <2>2. /\ paged \in LoadRec /\ paged.n = readme.n
        /\ paged.crossed = loading[l].crossed /\ paged.conf = loading[l].conf
        /\ paged.late = loading[l].late
    BY <1>1 DEF LoadRec
  <2>3. loading' = [loading EXCEPT ![l] = paged]
    BY <1>1, <2>1
  <2> HIDE DEF paged
  <2>4. /\ loading' \in [Lists -> LoadRec] /\ loading'[l].n = readme.n
        /\ loading'[l].crossed = loading[l].crossed /\ loading'[l].conf = loading[l].conf
        /\ loading'[l].late = loading[l].late
        /\ \A m \in Lists \ {l} : loading'[m] = loading[m]
    BY <1>1, <2>2, <2>3
  <2> QED BY <1>1, <2>1, <2>4, ListsMove
<1>5. CASE ListFails(l)
  <2>1. UNCHANGED <<readmeVars, conn, missed, listing>> /\ EndLoad(l)
    BY <1>5 DEF ListFails
  <2> QED BY <1>1, <2>1, EndLoadMoves, ListsMove
<1>6. CASE Keep(l)
  <2>1. UNCHANGED <<readmeVars, conn, missed>> /\ EndLoad(l) /\ loading[l].pc = "keep"
    BY <1>6 DEF Keep
  <2>2. CASE UNCHANGED listing
    BY <1>1, <2>1, <2>2, EndLoadMoves, ListsMove
  <2>3. CASE listing' = [listing EXCEPT ![loading[l].scope] = Row(l)]
    <3>1. Row(l) \in RowRec /\ (~Row(l).crossed => KeptOf(Row(l), loading[l]))
      <4>1. Row(l) \in RowRec
        BY <1>1 DEF Row, RowRec, LoadRec
      <4>2. ~Row(l).crossed => KeptOf(Row(l), loading[l])
        BY <2>1 DEF Row, KeptOf
      <4> QED BY <4>1, <4>2
    <3>2. /\ listing' \in [Scopes -> RowRec]
          /\ \A s \in Scopes : listing'[s] = listing[s] \/ listing'[s] = Row(l)
      BY <1>1, <2>3, <3>1
    <3>3. \A s \in Scopes : listing'[s].kept /\ ~listing'[s].crossed =>
              \/ listing'[s] = listing[s]
              \/ \E m \in Lists : KeptOf(listing'[s], loading[m])
      BY <3>1, <3>2
    <3>4. /\ loading' \in [Lists -> LoadRec]
          /\ loading'[l].pc = "none" /\ \A m \in Lists \ {l} : loading'[m] = loading[m]
      BY <2>1, EndLoadMoves
    <3> QED BY <1>1, <2>1, <3>2, <3>3, <3>4, ListsMove
  <2> QED BY <1>6, <2>2, <2>3 DEF Keep
<1>7. CASE Leave(l)
  <2>1. UNCHANGED <<readmeVars, conn, missed, listing>>
        /\ \/ loading' = loading
           \/ \E m : loading' = [loading EXCEPT ![m].shared = FALSE, ![m].aborted = TRUE]
    BY <1>7 DEF Leave
  <2>2. /\ loading' \in [Lists -> LoadRec]
        /\ \A m \in Lists : /\ loading'[m].pc = loading[m].pc /\ loading'[m].n = loading[m].n
                            /\ loading'[m].crossed = loading[m].crossed /\ loading'[m].conf = loading[m].conf
                            /\ loading'[m].late = loading[m].late
    <3>1. CASE loading' = loading
      BY <1>1, <3>1
    <3>2. ASSUME NEW m, loading' = [loading EXCEPT ![m].shared = FALSE, ![m].aborted = TRUE], NEW k \in Lists
          PROVE  /\ loading'[k] \in LoadRec
                 /\ loading'[k].pc = loading[k].pc /\ loading'[k].n = loading[k].n
                 /\ loading'[k].crossed = loading[k].crossed /\ loading'[k].conf = loading[k].conf
                 /\ loading'[k].late = loading[k].late
      <4>1. CASE k = m
        <5>1. loading'[k] = [loading[k] EXCEPT !.shared = FALSE, !.aborted = TRUE]
          BY <1>1, <3>2, <4>1
        <5>2. loading[k] \in LoadRec
          BY <1>1
        <5>3. ASSUME NEW rec \in LoadRec
              PROVE  LET new == [rec EXCEPT !.shared = FALSE, !.aborted = TRUE]
                     IN  /\ new \in LoadRec /\ new.pc = rec.pc /\ new.n = rec.n
                         /\ new.crossed = rec.crossed /\ new.conf = rec.conf /\ new.late = rec.late
          BY DEF LoadRec
        <5> QED BY <5>1, <5>2, <5>3
      <4>2. CASE k # m
        <5>1. loading'[k] = loading[k]
          BY <1>1, <3>2, <4>2
        <5> QED BY <1>1, <5>1
      <4> QED BY <4>1, <4>2
    <3>3. ASSUME NEW m, loading' = [loading EXCEPT ![m].shared = FALSE, ![m].aborted = TRUE]
          PROVE  loading' \in [Lists -> LoadRec]
      <4>1. DOMAIN loading' = Lists /\ loading' = [k \in Lists |-> loading'[k]]
        BY <1>1, <3>3
      <4> QED BY <3>2, <3>3, <4>1
    <3> QED BY <2>1, <3>1, <3>2, <3>3
  <2> QED BY <1>1, <2>1, <2>2, ListsMove
<1>8. ASSUME NEW s \in Scopes, Expire(s) PROVE ListsInv'
  <2>1. UNCHANGED <<readmeVars, conn, missed, loading>> /\ listing' = [listing EXCEPT ![s] = NoRow]
    BY <1>8 DEF Expire
  <2>2. NoRow \in RowRec /\ NoRow.kept = FALSE
    BY DEF NoRow, RowRec
  <2>3. /\ listing' \in [Scopes -> RowRec]
        /\ \A t \in Scopes : listing'[t] = listing[t] \/ ~listing'[t].kept
    BY <1>1, <2>1, <2>2
  <2> QED BY <1>1, <2>1, <2>3, ListsMove
<1> QED BY <1>2, <1>3, <1>4, <1>5, <1>6, <1>7, <1>8

\* The records a GET goes through.
LEMMA GetRecords ==
    /\ NoGet \in GetRec /\ NoGet.pc = "idle" /\ NoGet.late = FALSE
    /\ \A rec \in GetRec : LET done == [rec EXCEPT !.pc = "done"]
                           IN  done \in GetRec /\ done.pc = "done"
    /\ \A rec \in GetRec, m \in Lists : LET new == [rec EXCEPT !.pc = "waiting", !.on = m]
                                        IN  new \in GetRec /\ new.pc = "waiting"
<1>1. NoGet \in GetRec /\ NoGet.pc = "idle" /\ NoGet.late = FALSE
  BY DEF NoGet, GetRec
<1>2. ASSUME NEW rec \in GetRec
      PROVE  LET done == [rec EXCEPT !.pc = "done"]
             IN  done \in GetRec /\ done.pc = "done"
  BY DEF GetRec
<1>3. ASSUME NEW rec \in GetRec, NEW m \in Lists
      PROVE  LET new == [rec EXCEPT !.pc = "waiting", !.on = m]
             IN  new \in GetRec /\ new.pc = "waiting"
  BY DEF GetRec
<1> QED BY <1>1, <1>2, <1>3

\* What the GETs may do while they wait.
LEMMA GetSteps ==
    ASSUME GetsInv, ListsInv, NEW l \in Lists,
           \/ \E s \in Scopes, refresh \in BOOLEAN : Ask(l, s, refresh)
           \/ NoClient(l) \/ GotClient(l)
           \/ LookUp(l) \/ ListPage(l) \/ ListFails(l) \/ Keep(l) \/ Leave(l)
    PROVE  GetsInv'
<1>1. lister \in [Lists -> GetRec] /\ conn \in [version : Nat, dropping : Nat]
  BY DEF GetsInv, ListsInv
<1>2. conn' = conn
  BY DEF Ask, NoClient, GotClient, LookUp, ListPage, ListFails, Keep, Leave
<1>3. ASSUME NEW rec \in GetRec, lister' = [lister EXCEPT ![l] = rec],
             rec.pc = "client" /\ conn.dropping = 0 => rec.since = conn.version
      PROVE  GetsInv'
  BY <1>1, <1>2, <1>3 DEF GetsInv
<1>4. [NoGet EXCEPT !.pc = "done"] \in GetRec /\ [NoGet EXCEPT !.pc = "done"].pc = "done"
  BY GetRecords
<1>5. ASSUME NEW s \in Scopes, NEW refresh \in BOOLEAN, Ask(l, s, refresh) PROVE GetsInv'
  <2> DEFINE rec == [NoGet EXCEPT !.pc = "client", !.scope = s, !.refresh = refresh,
                                  !.since = conn.version - conn.dropping]
  <2>1. rec \in GetRec /\ rec.since = conn.version - conn.dropping
    <3>1. conn.version - conn.dropping \in Int
      BY <1>1
    <3>2. ASSUME NEW n \in Int
          PROVE  LET new == [NoGet EXCEPT !.pc = "client", !.scope = s, !.refresh = refresh, !.since = n]
                 IN  new \in GetRec /\ new.since = n
      BY DEF NoGet, GetRec
    <3> QED BY <3>1, <3>2
  <2>2. lister' = [lister EXCEPT ![l] = rec]
    BY <1>5 DEF Ask
  <2>3. conn.dropping = 0 => rec.since = conn.version
    BY <1>1, <2>1
  <2> HIDE DEF rec
  <2> QED BY <1>3, <2>1, <2>2, <2>3
<1>6. CASE NoClient(l)
  <2>1. lister' = [lister EXCEPT ![l] = [NoGet EXCEPT !.pc = "done"]]
    BY <1>6 DEF NoClient
  <2> QED BY <1>3, <1>4, <2>1
<1>7. CASE GotClient(l)
  <2>1. PICK m \in Lists : WaitsOn(l, m)
    BY <1>7 DEF GotClient, Sharing
  <2> DEFINE rec == [NoGet EXCEPT !.pc = "waiting", !.on = m]
  <2>2. rec \in GetRec /\ rec.pc = "waiting" /\ lister' = [lister EXCEPT ![l] = rec]
    <3>1. rec \in GetRec /\ rec.pc = "waiting"
      BY GetRecords
    <3> QED BY <2>1, <3>1 DEF WaitsOn
  <2> HIDE DEF rec
  <2> QED BY <1>3, <2>2
<1>8. ASSUME EndLoad(l) PROVE GetsInv'
  <2>1. \A m \in Lists : lister'[m] = lister[m] \/ lister'[m] = [NoGet EXCEPT !.pc = "done"]
    BY <1>8 DEF EndLoad
  <2>2. lister' \in [Lists -> GetRec]
    BY <1>1, <1>4, <1>8, <2>1 DEF EndLoad
  <2> QED BY <1>2, <1>4, <2>1, <2>2 DEF GetsInv
<1>9. ASSUME UNCHANGED lister PROVE GetsInv'
  BY <1>2, <1>9 DEF GetsInv
<1>10. CASE LookUp(l) \/ ListPage(l) \/ ListFails(l) \/ Keep(l)
  <2>1. EndLoad(l) \/ UNCHANGED lister
    BY <1>10 DEF LookUp, ListPage, ListFails, Keep
  <2> QED BY <1>8, <1>9, <2>1
<1>11. CASE Leave(l)
  <2>1. lister' = [lister EXCEPT ![l] = [NoGet EXCEPT !.pc = "done"]]
    BY <1>11 DEF Leave
  <2> QED BY <1>3, <1>4, <2>1
<1> QED BY <1>5, <1>6, <1>7, <1>10, <1>11

-----------------------------------------------------------------------------
LEMMA ReadmeStarts == ReadmeInit => ReadmeInv
<1> SUFFICES ASSUME ReadmeInit PROVE ReadmeInv
  OBVIOUS
<1>1. /\ readmePut \in [Editors -> PutRec] /\ readme \in ReadmeRec
      /\ history \in Seq([by : Editors, body : Texts])
  BY DEF ReadmeInit, PutRec, ReadmeRec
<1>2. WriteLineInv(writeLine, readmePut)
  <2>1. Lined(readmePut) = {} /\ HoldsLine(readmePut) = {} /\ writeLine = <<>>
    BY DEF ReadmeInit, Lined, HoldsLine, LinedPut, HoldingPut
  <2> QED BY <2>1, ChainStarts DEF WriteLineInv
<1>3. WriterInv(readme, history, readmePut)
  BY ReadmeAssumption DEF ReadmeInit, WriterInv
<1>4. ListsInv
  <2>1. NoRow \in RowRec /\ NoLoad \in LoadRec /\ ~NoRow.kept /\ NoLoad.pc = "none"
    BY DEF NoRow, NoLoad, RowRec, LoadRec
  <2> QED BY <2>1 DEF ReadmeInit, ListsInv, LoadsAndRows
<1>5. GetsInv
  <2>1. NoGet \in GetRec /\ NoGet.pc = "idle"
    BY GetRecords
  <2> QED BY <2>1 DEF ReadmeInit, GetsInv
<1> QED BY <1>1, <1>2, <1>3, <1>4, <1>5 DEF ReadmeInv, PutsInv

LEMMA ReadmeStep == ReadmeInv /\ [ReadmeNext]_rlVars => ReadmeInv'
<1> SUFFICES ASSUME ReadmeInv, [ReadmeNext]_rlVars PROVE ReadmeInv'
  OBVIOUS
<1>1. PutsInv /\ ListsInv /\ GetsInv /\ readme.n \in Nat
      /\ lister \in [Lists -> GetRec] /\ conn \in [version : Nat, dropping : Nat]
  BY DEF ReadmeInv, PutsInv, ReadmeRec, GetsInv, ListsInv
<1>2. ASSUME UNCHANGED readmeVars PROVE PutsInv'
  BY <1>1, <1>2 DEF readmeVars, PutsInv, WriteLineInv, Lined, HoldsLine
<1>3. ASSUME NEW e \in Editors,
             \/ \E text \in Texts : LineUp(e, text)
             \/ SameBody(e) \/ Differs(e) \/ WriteObject(e) \/ ObjectFails(e)
             \/ InvalidateScope(e) \/ Record(e) \/ RecordFails(e)
      PROVE  ReadmeInv'
  <2>1. UNCHANGED <<conn, lister>>
    BY <1>3 DEF LineUp, SameBody, Differs, WriteObject, ObjectFails, InvalidateScope, Record,
                RecordFails, listVars
  <2>2. GetsInv'
    BY <1>1, <2>1 DEF GetsInv
  <2> QED BY <1>1, <1>3, <2>2, PutSteps, PutsSeenByLists DEF ReadmeInv
<1>4. CASE PutConnection
  <2>1. /\ UNCHANGED <<readmeVars, listVars, missed>>
        /\ conn' = [version |-> conn.version + 1, dropping |-> conn.dropping + 1]
    BY <1>4 DEF PutConnection
  <2>2. conn'.dropping # 0
    BY <1>1, <2>1
  <2>3. LoadsAndRows(listing, loading, readme.n, conn.version, Undropped(readmePut), conn.dropping)
        => LoadsAndRows(listing, loading, readme.n, conn.version, Undropped(readmePut), conn.dropping)'
    BY <2>1, <2>2 DEF LoadsAndRows, IsNow, HasNow, Undropped, readmeVars, listVars
  <2>4. conn' \in [version : Nat, dropping : Nat]
    BY <1>1, <2>1
  <2>5. GetsInv'
    BY <1>1, <2>1, <2>2 DEF GetsInv, listVars
  <2> QED BY <1>1, <1>2, <2>1, <2>3, <2>4, <2>5 DEF ListsInv, ReadmeInv, listVars
<1>5. CASE InvalidateConnection
  <2>1. UNCHANGED readmeVars /\ readme' = readme /\ Drops /\ conn.dropping - 1 \in Nat
        /\ conn' = [conn EXCEPT !.dropping = conn.dropping - 1]
    BY <1>1, <1>5 DEF InvalidateConnection, readmeVars
  <2>2. ASSUME NEW l \in Lists
        PROVE  lister'[l] \in GetRec /\ (lister'[l].pc = "client" => lister'[l].late)
    <3>1. lister[l] \in GetRec /\ (lister[l].pc = "client") \in BOOLEAN
      BY <1>1
    <3>2. lister'[l] = [lister[l] EXCEPT !.late = lister[l].late \/ lister[l].pc = "client"]
      BY <1>1, <1>5 DEF InvalidateConnection
    <3>3. (lister[l].late \/ lister[l].pc = "client") \in BOOLEAN
      OBVIOUS
    <3> QED BY <3>1, <3>2, <3>3 DEF GetRec
  <2>3. lister' \in [Lists -> GetRec]
    BY <1>5, <2>2 DEF InvalidateConnection
  <2>4. GetsInv'
    BY <2>2, <2>3 DEF GetsInv
  <2> QED BY <1>1, <1>2, <2>1, <2>4, DropsAllListings DEF ReadmeInv
<1>6. ASSUME NEW l \in Lists,
             \/ \E s \in Scopes, refresh \in BOOLEAN : Ask(l, s, refresh)
             \/ NoClient(l) \/ GotClient(l)
             \/ LookUp(l) \/ ListPage(l) \/ ListFails(l) \/ Keep(l) \/ Leave(l)
      PROVE  ReadmeInv'
  <2>1. UNCHANGED readmeVars
    BY <1>6 DEF Ask, NoClient, GotClient, LookUp, ListPage, ListFails, Keep, Leave
  <2>2. GetsInv'
    BY <1>1, <1>6, GetSteps
  <2>3. ListsInv'
    <3>1. CASE NoClient(l) \/ \E s \in Scopes, refresh \in BOOLEAN : Ask(l, s, refresh)
      <4>1. UNCHANGED <<readme, conn, listing, loading, missed>> /\ readmePut' = readmePut
        BY <2>1, <3>1 DEF NoClient, Ask, readmeVars
      <4> QED BY <1>1, <4>1, ListsAreLeft
    <3> QED BY <1>1, <1>6, <3>1, ListSteps
  <2> QED BY <1>1, <1>2, <2>1, <2>2, <2>3 DEF ReadmeInv
<1>7. ASSUME NEW s \in Scopes, Expire(s) PROVE ReadmeInv'
  <2>1. UNCHANGED <<readmeVars, conn, missed, loading>> /\ listing' = [listing EXCEPT ![s] = NoRow]
    BY <1>7 DEF Expire
  <2>5. GetsInv'
    BY <1>1, <1>7 DEF Expire, GetsInv
  <2>2. listing \in [Scopes -> RowRec] /\ loading \in [Lists -> LoadRec]
    BY <1>1 DEF ListsInv
  <2>3. NoRow \in RowRec /\ NoRow.kept = FALSE
    BY DEF NoRow, RowRec
  <2>4. /\ listing' \in [Scopes -> RowRec]
        /\ \A t \in Scopes : listing'[t] = listing[t] \/ ~listing'[t].kept
    BY <2>1, <2>2, <2>3
  <2> QED BY <1>1, <1>2, <2>1, <2>2, <2>4, <2>5, ListsMove DEF ReadmeInv
<1>8. CASE UNCHANGED rlVars
  <2>1. UNCHANGED <<readmeVars, readme, conn, listing, loading, missed>> /\ readmePut' = readmePut
    BY <1>8 DEF rlVars, readmeVars
  <2>2. GetsInv'
    BY <1>1, <1>8 DEF rlVars, GetsInv
  <2> QED BY <1>1, <1>2, <2>1, <2>2, ListsAreLeft DEF ReadmeInv
<1> QED BY <1>3, <1>4, <1>5, <1>6, <1>7, <1>8 DEF ReadmeNext

THEOREM ReadmeInvHolds == ReadmeSpec => []ReadmeInv
<1>1. ReadmeInit => ReadmeInv
  BY ReadmeStarts
<1>2. ReadmeInv /\ [ReadmeNext]_rlVars => ReadmeInv'
  BY ReadmeStep
<1> QED BY <1>1, <1>2, PTL DEF ReadmeSpec

\* The lock of a README is held until its version is recorded, so that the last
\* record is that of the last write: the editor a GET shows and the text a search
\* looks at are those of the body, unless a PUT failed on its way.
THEOREM RecordsFollow == ReadmeSpec => []RecordsFollowTheObject
<1>1. ReadmeInv => RecordsFollowTheObject
  <2> SUFFICES ASSUME ReadmeInv, readme.by \in At({"ok"})
               PROVE  EditorShown = readme.by /\ TextSearched = readme.body
    BY DEF RecordsFollowTheObject
  <2>1. readme.by \in Editors /\ readmePut[readme.by].pc = "ok"
    BY DEF At
  <2>2. Len(history) > 0 /\ history[Len(history)] = [by |-> readme.by, body |-> readme.body]
        /\ history \in Seq([by : Editors, body : Texts])
    BY <2>1 DEF ReadmeInv, PutsInv, WriterInv
  <2>3. history # <<>> /\ Len(history) \in Nat
    BY <2>2
  <2>4. Versions(1) = [i \in 1 .. 1 |-> history[Len(history) + 1 - i]]
    BY <2>2, <2>3 DEF Versions
  <2>5. Versions(1)[1] = history[Len(history)]
    BY <2>3, <2>4
  <2> QED BY <2>2, <2>3, <2>5 DEF EditorShown, TextSearched
<1> QED BY <1>1, ReadmeInvHolds, PTL

\* The object is written, and the connection committed and its client dropped,
\* before the DELETE of the listings: a listing asked for after the DELETE is stored
\* with both.
THEOREM ListingsAreCurrent == ReadmeSpec => []StaleListingsWereLoading
<1>1. ReadmeInv => StaleListingsWereLoading
  <2>1. ASSUME At({"drop"}) = {} PROVE ~Undropped(readmePut)
    BY <2>1 DEF At, Undropped
  <2> QED BY <2>1 DEF ReadmeInv, ListsInv, LoadsAndRows, IsNow, HasNow, StaleListingsWereLoading
<1> QED BY <1>1, ReadmeInvHolds, PTL

\* What is recorded of a README and what is kept of its prefix follow the storage.
THEOREM KeptFollows == ReadmeSpec => []KeptFollowsTheStorage
<1>1. RecordsFollowTheObject /\ StaleListingsWereLoading => KeptFollowsTheStorage
  BY DEF KeptFollowsTheStorage
<1> QED BY <1>1, RecordsFollow, ListingsAreCurrent, PTL

-----------------------------------------------------------------------------
(* Sessions that a single sign-on opened.                                    *)

SsoRec == [state : {"none", "live", "revoked"}, tokens : BOOLEAN, refresh : Nat,
           lapsed : BOOLEAN, due : BOOLEAN, n : Nat]
Roles == Groups \cup {NoOne}
SignInRec == [pc : {"idle", "insert", "away", "grant", "provision", "create", "in", "failed"},
              group : Groups \cup {Outside, NoOne}]
CheckRec == [pc : {"none", "reread", "refresh", "userinfo", "update", "revoke", "revoke all"},
             row : SsoRec, role : Roles, renewed : Nat]
VisitRec == [pc : {"idle", "read", "waiting", "revoking", "accepted", "refused", "unavailable"},
             on : Logins \cup {NoOne}, row : SsoRec, role : Roles, doomed : BOOLEAN]

OidcTypes ==
    /\ idpGroup \in Groups \cup {Outside} /\ ssoRole \in Roles
    /\ idpSession \in [Logins -> {"none", "open", "closed"}]
    /\ idpRefresh \in [Logins -> Nat] /\ spent \in [Logins -> SUBSET Nat]
    /\ signIn \in [Logins -> SignInRec] /\ sso \in [Logins -> SsoRec]
    /\ check \in [Logins -> CheckRec] /\ visit \in [Visits -> VisitRec]
    /\ lostRefresh \in [Logins -> BOOLEAN] /\ loggedOut \in [Logins -> {"no", "yes", "during"}]

\* A check that has read the row again and goes on to store an answer.
UnderWay == {"refresh", "userinfo", "update"}

\* One login: its sign-in, session and check, the token that works, those that
\* were exchanged, whether a renewed one was lost, and whether it was logged out.
LoginOK(in, s, c, works, used, lost, out) ==
    /\ in.pc # "in" => s.state = "none"
    /\ s.state = "none" => c.pc = "none" /\ used = {}
    /\ s.state # "live" => ~s.tokens /\ s.refresh = 0
    /\ out = "yes" => s.state # "live" /\ in.pc \in {"in", "failed"}
    /\ \A t \in used : 0 < t /\ t < works
    /\ c.pc \in {"none", "reread", "refresh"} => c.renewed = 0
    /\ c.renewed # 0 => c.renewed = works
    /\ lost \/ c.renewed # 0 \/ s.refresh \notin used
    /\ c.pc \in UnderWay => /\ lost \/ c.renewed # 0 \/ c.row.refresh \notin used
                            /\ s.state = "live" => c.row.n = s.n

LoginsInv ==
    \A l \in Logins :
        LoginOK(signIn[l], sso[l], check[l], idpRefresh[l], spent[l], lostRefresh[l], loggedOut[l])

\* One visit of a session s whose check stands at pc.
WordOK(v, s, pc, there, group) ==
    /\ s.state # "none"
    /\ v.pc = "accepted" => ~v.doomed
    /\ v.pc = "waiting" /\ v.doomed =>
          /\ s.due \/ s.lapsed
          /\ pc # "update"
          /\ there = "closed" \/ group = Outside

VisitsInv ==
    \A v \in Visits : visit[v].pc \notin {"idle", "unavailable"} =>
        LET l == visit[v].on IN
        l \in Logins /\ WordOK(visit[v], sso[l], check[l].pc, idpSession[l], idpGroup)

OidcInv == OidcTypes /\ LoginsInv /\ VisitsInv

-----------------------------------------------------------------------------
(* What every step leaves.                                                    *)

\* What a visit waits for goes on.
KeepsWord(l) ==
    /\ sso[l].due \/ sso[l].lapsed => sso'[l].due \/ sso'[l].lapsed
    /\ check'[l].pc = "update" => check[l].pc = "update" \/ (idpSession[l] # "closed" /\ idpGroup # Outside)
    /\ idpSession[l] = "closed" => idpSession'[l] = "closed"
    /\ idpGroup = Outside => idpGroup' = Outside

LEMMA VisitsMove ==
    ASSUME VisitsInv, \A l \in Logins : sso[l].state # "none" => sso'[l].state # "none",
           \A v \in Visits :
              \/ visit'[v] = visit[v] /\ (visit[v].pc = "waiting" => KeepsWord(visit[v].on))
              \/ visit'[v].pc \in {"idle", "unavailable"}
              \/ /\ visit[v].pc \notin {"idle", "unavailable"} /\ visit'[v].on = visit[v].on
                 /\ visit'[v].pc # "waiting" /\ (visit'[v].pc = "accepted" => ~visit'[v].doomed)
    PROVE  VisitsInv'
<1> SUFFICES ASSUME NEW v \in Visits, visit'[v].pc \notin {"idle", "unavailable"}
             PROVE  LET l == visit'[v].on IN
                    l \in Logins /\ WordOK(visit'[v], sso'[l], check'[l].pc, idpSession'[l], idpGroup')
  BY DEF VisitsInv
<1>1. CASE visit'[v] = visit[v] /\ (visit[v].pc = "waiting" => KeepsWord(visit[v].on))
  BY <1>1 DEF VisitsInv, WordOK, KeepsWord
<1>2. CASE /\ visit[v].pc \notin {"idle", "unavailable"} /\ visit'[v].on = visit[v].on
           /\ visit'[v].pc # "waiting" /\ (visit'[v].pc = "accepted" => ~visit'[v].doomed)
  BY <1>2 DEF VisitsInv, WordOK
<1> QED BY <1>1, <1>2

\* Only the visits that wait for the check of a login end with it.
LEMMA VisitsEnd ==
    ASSUME OidcTypes, VisitsInv, NEW l \in Logins,
           NEW p \in {"accepted", "refused", "unavailable"}, Ends(l, p),
           \A m \in Logins : sso[m].state # "none" => sso'[m].state # "none",
           \A m \in Logins \ {l} : KeepsWord(m),
           p = "accepted" => \A v \in Visits : visit[v].pc = "waiting" /\ visit[v].on = l => ~visit[v].doomed
    PROVE  VisitsInv' /\ visit' \in [Visits -> VisitRec]
<1>1. visit \in [Visits -> VisitRec]
  BY DEF OidcTypes
<1>2. ASSUME NEW rec \in VisitRec
      PROVE  LET new == [rec EXCEPT !.pc = p]
             IN  new \in VisitRec /\ new.pc = p /\ new.on = rec.on /\ new.doomed = rec.doomed
  BY DEF VisitRec
<1>3. visit' = [v \in Visits |-> IF v \in On(l) THEN [visit[v] EXCEPT !.pc = p] ELSE visit[v]]
  BY DEF Ends
<1>4. \A v \in Visits : v \in On(l) <=> visit[v].pc = "waiting" /\ visit[v].on = l
  BY DEF On
<1>5. ASSUME NEW v \in Visits, v \in On(l)
      PROVE  /\ visit'[v] \in VisitRec /\ visit'[v].pc = p
             /\ visit'[v].on = visit[v].on /\ visit'[v].doomed = visit[v].doomed
  BY <1>1, <1>2, <1>3, <1>5
<1>6. ASSUME NEW v \in Visits, v \notin On(l) PROVE visit'[v] = visit[v]
  BY <1>3, <1>6
<1>7. ASSUME NEW v \in Visits, visit[v].pc = "waiting", v \notin On(l) PROVE KeepsWord(visit[v].on)
  BY <1>4, <1>7 DEF VisitsInv
<1>8. \A v \in Visits : visit'[v] \in VisitRec
  BY <1>1, <1>5, <1>6
<1>9. visit' \in [Visits -> VisitRec]
  BY <1>3, <1>8
<1>10. VisitsInv'
  BY <1>4, <1>5, <1>6, <1>7, VisitsMove
<1> QED BY <1>9, <1>10

LEMMA NoSessionIs == NoSession \in SsoRec /\ NoSession.state = "none" /\ ~NoSession.tokens
                     /\ NoSession.refresh = 0 /\ ~NoSession.due /\ ~NoSession.lapsed
BY DEF NoSession, SsoRec

LEMMA NoCheckIs == NoCheck \in CheckRec /\ NoCheck.pc = "none" /\ NoCheck.renewed = 0
<1>1. NoSession \in SsoRec
  BY NoSessionIs
<1> QED BY <1>1 DEF NoCheck, CheckRec, Roles

LEMMA NoVisitIs == NoVisit \in VisitRec /\ NoVisit.pc = "idle" /\ ~NoVisit.doomed
<1>1. NoSession \in SsoRec
  BY NoSessionIs
<1> QED BY <1>1 DEF NoVisit, VisitRec, Roles

\* Every session is as it was, or a live one that has lost its tokens.
LEMMA RevokedIs ==
    ASSUME sso \in [Logins -> SsoRec], NEW gone, RevokeSessions(gone)
    PROVE  /\ sso' \in [Logins -> SsoRec]
           /\ \A l \in Logins : \/ sso'[l] = sso[l] /\ (l \notin gone \/ sso[l].state # "live")
                                \/ /\ sso'[l].state = "revoked" /\ ~sso'[l].tokens /\ sso'[l].refresh = 0
                                   /\ sso'[l].due = sso[l].due /\ sso'[l].lapsed = sso[l].lapsed
                                   /\ sso[l].state = "live"
<1>1. ASSUME NEW rec \in SsoRec
      PROVE  LET new == [rec EXCEPT !.state = "revoked", !.tokens = FALSE, !.refresh = 0]
             IN  /\ new \in SsoRec /\ new.state = "revoked" /\ ~new.tokens /\ new.refresh = 0
                 /\ new.due = rec.due /\ new.lapsed = rec.lapsed
  BY DEF SsoRec
<1>2. sso' = [l \in Logins |->
              IF l \in gone /\ sso[l].state = "live"
              THEN [sso[l] EXCEPT !.state = "revoked", !.tokens = FALSE, !.refresh = 0]
              ELSE sso[l]]
  BY DEF RevokeSessions, Live
<1>3. ASSUME NEW l \in Logins
      PROVE  /\ sso'[l] \in SsoRec
             /\ \/ sso'[l] = sso[l] /\ (l \notin gone \/ sso[l].state # "live")
                \/ /\ sso'[l].state = "revoked" /\ ~sso'[l].tokens /\ sso'[l].refresh = 0
                   /\ sso'[l].due = sso[l].due /\ sso'[l].lapsed = sso[l].lapsed
                   /\ sso[l].state = "live"
  <2>1. CASE l \in gone /\ sso[l].state = "live"
    <3>1. sso'[l] = [sso[l] EXCEPT !.state = "revoked", !.tokens = FALSE, !.refresh = 0] /\ sso[l] \in SsoRec
      BY <1>2, <2>1
    <3> QED BY <1>1, <2>1, <3>1
  <2>2. CASE ~(l \in gone /\ sso[l].state = "live")
    BY <1>2, <2>2
  <2> QED BY <2>1, <2>2
<1>4. sso' \in [Logins -> SsoRec]
  BY <1>2, <1>3
<1> QED BY <1>3, <1>4

\* A login stays as it should be when its session is revoked.
LEMMA RevokedOK ==
    ASSUME NEW in, NEW s, NEW c, NEW works, NEW used, NEW lost, NEW out, NEW after,
           LoginOK(in, s, c, works, used, lost, out),
           \/ after = s
           \/ after.state = "revoked" /\ ~after.tokens /\ after.refresh = 0 /\ s.state = "live"
    PROVE  LoginOK(in, after, c, works, used, lost, out)
<1>1. CASE after.state = "revoked" /\ ~after.tokens /\ after.refresh = 0 /\ s.state = "live"
  <2>1. 0 \notin used
    BY DEF LoginOK
  <2> QED BY <1>1, <2>1 DEF LoginOK
<1> QED BY <1>1

\* Nothing of the logins but l changes.
OtherLogins(l) ==
    \A m \in Logins \ {l} :
        /\ signIn'[m] = signIn[m] /\ sso'[m] = sso[m] /\ check'[m] = check[m]
        /\ idpRefresh'[m] = idpRefresh[m] /\ spent'[m] = spent[m]
        /\ lostRefresh'[m] = lostRefresh[m] /\ loggedOut'[m] = loggedOut[m]

LEMMA LoginMoves ==
    ASSUME LoginsInv, NEW l \in Logins, OtherLogins(l),
           LoginOK(signIn'[l], sso'[l], check'[l], idpRefresh'[l], spent'[l], lostRefresh'[l], loggedOut'[l])
    PROVE  LoginsInv'
<1>1. ASSUME NEW m \in Logins
      PROVE  LoginOK(signIn'[m], sso'[m], check'[m], idpRefresh'[m], spent'[m], lostRefresh'[m], loggedOut'[m])
  <2>1. CASE m = l
    BY <2>1
  <2>2. CASE m # l
    BY <2>2 DEF LoginsInv, OtherLogins
  <2> QED BY <2>1, <2>2
<1> QED BY <1>1 DEF LoginsInv

-----------------------------------------------------------------------------
(* The login.                                                                 *)

LEMMA SignInMoves ==
    ASSUME OidcTypes, NEW l \in Logins, NEW pc \in {"insert", "away", "grant", "create", "in", "failed"}, Moves(l, pc)
    PROVE  /\ signIn' \in [Logins -> SignInRec] /\ signIn'[l].pc = pc
           /\ \A m \in Logins \ {l} : signIn'[m] = signIn[m]
<1>1. signIn \in [Logins -> SignInRec]
  BY DEF OidcTypes
<1> DEFINE rec == [signIn[l] EXCEPT !.pc = pc]
<1>2. rec \in SignInRec /\ rec.pc = pc
  BY <1>1 DEF SignInRec
<1>3. signIn' = [signIn EXCEPT ![l] = rec]
  BY <1>1 DEF Moves
<1> HIDE DEF rec
<1> QED BY <1>1, <1>2, <1>3

LEMMA SignInSteps ==
    ASSUME OidcInv, NEW l \in Logins,
           \/ StartLogin(l) \/ InsertAttempt(l) \/ IdpLogin(l) \/ ClaimAttempt(l)
           \/ GrantCode(l) \/ ProvisionUser(l) \/ CreateSession(l)
    PROVE  OidcInv'
<1>1. OidcTypes /\ LoginsInv /\ VisitsInv
  BY DEF OidcInv
<1>2. LoginOK(signIn[l], sso[l], check[l], idpRefresh[l], spent[l], lostRefresh[l], loggedOut[l])
  BY <1>1 DEF LoginsInv
<1>3. signIn \in [Logins -> SignInRec]
  BY <1>1 DEF OidcTypes
\* A step that only moves the sign-in.
<1>4. ASSUME NEW pc \in {"insert", "away", "grant", "create", "failed"}, Moves(l, pc), signIn[l].pc \notin {"in", "failed"},
             UNCHANGED <<idpVars, sso, check, visit, pastVars>>, ssoRole' \in Roles
      PROVE  OidcInv'
  <2>1. /\ signIn' \in [Logins -> SignInRec] /\ signIn'[l].pc = pc
        /\ \A m \in Logins \ {l} : signIn'[m] = signIn[m]
    BY <1>1, <1>4, SignInMoves
  <2>2. OidcTypes'
    BY <1>1, <1>4, <2>1 DEF OidcTypes, idpVars, pastVars
  <2>3. VisitsInv'
    BY <1>1, <1>4 DEF VisitsInv, idpVars
  <2>4. OtherLogins(l)
    BY <1>4, <2>1 DEF OtherLogins, idpVars, pastVars
  <2>5. LoginOK(signIn'[l], sso'[l], check'[l], idpRefresh'[l], spent'[l], lostRefresh'[l], loggedOut'[l])
    BY <1>2, <1>4, <2>1 DEF LoginOK, idpVars, pastVars
  <2> QED BY <1>1, <2>2, <2>3, <2>4, <2>5, LoginMoves DEF OidcInv
<1>5. CASE StartLogin(l)
  BY <1>1, <1>4, <1>5 DEF StartLogin, OidcTypes
<1>6. CASE InsertAttempt(l)
  BY <1>1, <1>4, <1>6 DEF InsertAttempt, OidcTypes
<1>7. CASE ClaimAttempt(l)
  BY <1>1, <1>4, <1>7 DEF ClaimAttempt, OidcTypes
<1>8. CASE IdpLogin(l)
  <2>1. /\ UNCHANGED <<idpGroup, idpRefresh, signIn, sso, ssoRole, check, visit, pastVars>>
        /\ idpSession' = [idpSession EXCEPT ![l] = "open"] /\ idpSession[l] = "none"
    BY <1>8 DEF IdpLogin
  <2>2. OidcTypes'
    BY <1>1, <2>1 DEF OidcTypes, pastVars
  <2>3. \A m \in Logins : idpSession[m] = "closed" => idpSession'[m] = "closed"
    BY <1>1, <2>1 DEF OidcTypes
  <2>4. VisitsInv'
    BY <1>1, <2>1, <2>3 DEF VisitsInv, WordOK
  <2>5. LoginsInv'
    BY <1>1, <2>1 DEF LoginsInv, pastVars
  <2> QED BY <2>2, <2>4, <2>5 DEF OidcInv
<1>9. CASE GrantCode(l)
  <2>1. CASE Moves(l, "failed") /\ UNCHANGED idpRefresh
    BY <1>1, <1>4, <1>9, <2>1 DEF GrantCode, OidcTypes, idpVars
  <2>2. CASE /\ signIn' = [signIn EXCEPT ![l] = [pc |-> "provision", group |-> idpGroup]]
             /\ idpRefresh' = [idpRefresh EXCEPT ![l] = 1]
    <3>1. /\ UNCHANGED <<idpGroup, idpSession, sso, ssoRole, check, visit, pastVars>> /\ signIn[l].pc = "grant"
      BY <1>9 DEF GrantCode
    <3>2. [pc |-> "provision", group |-> idpGroup] \in SignInRec
      BY <1>1 DEF OidcTypes, SignInRec
    <3>3. /\ signIn' \in [Logins -> SignInRec] /\ signIn'[l].pc = "provision"
          /\ idpRefresh' \in [Logins -> Nat] /\ idpRefresh'[l] = 1
          /\ \A m \in Logins \ {l} : signIn'[m] = signIn[m] /\ idpRefresh'[m] = idpRefresh[m]
      BY <1>1, <1>3, <2>2, <3>2 DEF OidcTypes
    <3>4. OidcTypes'
      BY <1>1, <3>1, <3>3 DEF OidcTypes, pastVars
    <3>5. VisitsInv'
      BY <1>1, <3>1 DEF VisitsInv
    <3>6. OtherLogins(l)
      BY <3>1, <3>3 DEF OtherLogins, pastVars
    <3>7. LoginOK(signIn'[l], sso'[l], check'[l], idpRefresh'[l], spent'[l], lostRefresh'[l], loggedOut'[l])
      BY <1>2, <3>1, <3>3 DEF LoginOK, pastVars, UnderWay
    <3> QED BY <1>1, <3>4, <3>5, <3>6, <3>7, LoginMoves DEF OidcInv
  <2> QED BY <1>9, <2>1, <2>2 DEF GrantCode
<1>10. CASE ProvisionUser(l)
  <2>1. signIn[l].pc = "provision" /\ UNCHANGED <<idpVars, sso, check, visit, pastVars>>
    BY <1>10 DEF ProvisionUser
  <2>2. CASE Moves(l, "failed") /\ UNCHANGED ssoRole
    BY <1>1, <1>4, <2>1, <2>2 DEF OidcTypes
  <2>3. CASE signIn[l].group # Outside /\ ssoRole' = signIn[l].group /\ Moves(l, "create")
    <3>1. ssoRole' \in Roles
      BY <1>3, <2>3 DEF SignInRec, Roles
    <3> QED BY <1>4, <2>1, <2>3, <3>1
  <2> QED BY <1>10, <2>2, <2>3 DEF ProvisionUser
<1>11. CASE CreateSession(l)
  <2>1. signIn[l].pc = "create" /\ UNCHANGED <<idpVars, ssoRole, check, visit, pastVars>>
    BY <1>11 DEF CreateSession
  <2>2. CASE Moves(l, "failed") /\ UNCHANGED sso
    BY <1>1, <1>4, <2>1, <2>2 DEF OidcTypes
  <2>3. ASSUME NEW tokens \in BOOLEAN, NEW refresh \in {0, 1}, Moves(l, "in"),
               sso' = [sso EXCEPT ![l] =
                    [NoSession EXCEPT !.state = "live", !.tokens = tokens, !.n = 1,
                                      !.refresh = IF tokens THEN refresh ELSE 0]]
        PROVE  OidcInv'
    <3> DEFINE token == IF tokens THEN refresh ELSE 0
               rec == [NoSession EXCEPT !.state = "live", !.tokens = tokens, !.n = 1, !.refresh = token]
    <3>1. rec \in SsoRec /\ rec.state = "live"
      <4>1. NoSession \in SsoRec /\ token \in Nat
        BY NoSessionIs
      <4> HIDE DEF token
      <4> QED BY <4>1 DEF SsoRec
    <3> HIDE DEF rec
    <3>2. sso' \in [Logins -> SsoRec] /\ sso'[l] = rec /\ \A m \in Logins \ {l} : sso'[m] = sso[m]
      BY <1>1, <2>3, <3>1 DEF rec, OidcTypes
    <3>3. /\ signIn' \in [Logins -> SignInRec] /\ signIn'[l].pc = "in"
          /\ \A m \in Logins \ {l} : signIn'[m] = signIn[m]
      BY <1>1, <2>3, SignInMoves
    <3>4. OidcTypes'
      BY <1>1, <2>1, <3>2, <3>3 DEF OidcTypes, idpVars, pastVars
    <3>5. OtherLogins(l)
      BY <2>1, <3>2, <3>3 DEF OtherLogins, idpVars, pastVars
    <3>6. LoginOK(signIn'[l], sso'[l], check'[l], idpRefresh'[l], spent'[l], lostRefresh'[l], loggedOut'[l])
      BY <1>2, <2>1, <3>1, <3>2, <3>3 DEF LoginOK, idpVars, pastVars, UnderWay
    <3>7. sso[l].state = "none"
      BY <1>2, <2>1 DEF LoginOK
    <3>8. VisitsInv'
      <4>1. \A m \in Logins : sso[m].state # "none" => sso'[m].state # "none"
        BY <3>1, <3>2
      <4>2. ASSUME NEW v \in Visits, visit[v].pc = "waiting" PROVE KeepsWord(visit[v].on)
        <5>1. visit[v].on \in Logins \ {l}
          BY <1>1, <3>7, <4>2 DEF VisitsInv, WordOK
        <5> QED BY <2>1, <3>2, <5>1 DEF KeepsWord, idpVars
      <4> QED BY <1>1, <2>1, <4>1, <4>2, VisitsMove
    <3> QED BY <1>1, <3>4, <3>5, <3>6, <3>8, LoginMoves DEF OidcInv
  <2> QED BY <1>11, <2>2, <2>3 DEF CreateSession
<1> QED BY <1>5, <1>6, <1>7, <1>8, <1>9, <1>10, <1>11

-----------------------------------------------------------------------------
(* Logouts, and the requests.                                                 *)

\* A revocation beside which nothing changes but what the check and the visits of
\* one login say.
LEMMA RevokingSteps ==
    ASSUME OidcInv, NEW gone, RevokeSessions(gone),
           UNCHANGED <<idpGroup, idpSession, idpRefresh, signIn, ssoRole, check, visit, spent, lostRefresh>>,
           loggedOut' \in [Logins -> {"no", "yes", "during"}],
           \A l \in Logins : loggedOut'[l] = "yes" =>
                loggedOut[l] = "yes" \/ (l \in gone /\ signIn[l].pc \in {"in", "failed"})
    PROVE  OidcInv'
<1>1. OidcTypes /\ LoginsInv /\ VisitsInv
  BY DEF OidcInv
<1>2. /\ sso' \in [Logins -> SsoRec]
      /\ \A l \in Logins : \/ sso'[l] = sso[l] /\ (l \notin gone \/ sso[l].state # "live")
                           \/ /\ sso'[l].state = "revoked" /\ ~sso'[l].tokens /\ sso'[l].refresh = 0
                              /\ sso'[l].due = sso[l].due /\ sso'[l].lapsed = sso[l].lapsed
                              /\ sso[l].state = "live"
  BY <1>1, RevokedIs DEF OidcTypes
<1>3. OidcTypes'
  BY <1>1, <1>2 DEF OidcTypes
<1>4. ASSUME NEW l \in Logins
      PROVE  LoginOK(signIn'[l], sso'[l], check'[l], idpRefresh'[l], spent'[l], lostRefresh'[l], loggedOut'[l])
  <2>1. LoginOK(signIn[l], sso[l], check[l], idpRefresh[l], spent[l], lostRefresh[l], loggedOut[l])
    BY <1>1 DEF LoginsInv
  <2>2. LoginOK(signIn[l], sso'[l], check[l], idpRefresh[l], spent[l], lostRefresh[l], loggedOut[l])
    BY <1>2, <2>1, RevokedOK
  <2>3. loggedOut'[l] = "yes" => sso'[l].state # "live" /\ signIn[l].pc \in {"in", "failed"}
    BY <1>2, <2>1 DEF LoginOK
  <2> QED BY <2>2, <2>3 DEF LoginOK
<1>5. \A l \in Logins : KeepsWord(l) /\ (sso[l].state # "none" => sso'[l].state # "none")
  BY <1>2 DEF KeepsWord
<1>6. VisitsInv'
  <2>1. ASSUME NEW v \in Visits, visit[v].pc = "waiting" PROVE KeepsWord(visit[v].on)
    BY <1>1, <1>5, <2>1 DEF VisitsInv
  <2> QED BY <1>1, <1>5, <2>1, VisitsMove
<1> QED BY <1>3, <1>4, <1>6 DEF OidcInv, LoginsInv

LEMMA LogoutSteps ==
    ASSUME OidcInv, NEW l \in Logins,
           \/ FrontchannelLogout(l) \/ Logout(l)
           \/ \E bySid \in BOOLEAN : BackchannelLogout(l, bySid)
    PROVE  OidcInv'
<1>1. CASE Logout(l)
  <2>1. loggedOut \in [Logins -> {"no", "yes", "during"}]
    BY DEF OidcInv, OidcTypes
  <2> QED BY <1>1, <2>1, RevokingSteps DEF Logout, idpVars, pastVars
<1>2. ASSUME NEW bySid \in BOOLEAN, LogsOut(l, bySid),
             UNCHANGED <<idpGroup, idpSession, idpRefresh, signIn, ssoRole, check, visit, spent, lostRefresh>>
      PROVE  OidcInv'
  <2> DEFINE gone == OfLogout(l, bySid)
  <2>1. loggedOut \in [Logins -> {"no", "yes", "during"}]
    BY DEF OidcInv, OidcTypes
  <2>2. RevokeSessions(gone)
        /\ loggedOut' = [m \in Logins |->
              IF m \notin gone THEN loggedOut[m]
              ELSE IF signIn[m].pc \in {"in", "failed"} THEN "yes" ELSE "during"]
    BY <1>2 DEF LogsOut
  <2> HIDE DEF gone
  <2>3. loggedOut' \in [Logins -> {"no", "yes", "during"}]
    BY <2>1, <2>2
  <2>4. \A m \in Logins : loggedOut'[m] = "yes" =>
                loggedOut[m] = "yes" \/ (m \in gone /\ signIn[m].pc \in {"in", "failed"})
    BY <2>2
  <2> QED BY <1>2, <2>2, <2>3, <2>4, RevokingSteps
<1>3. CASE FrontchannelLogout(l)
  BY <1>2, <1>3 DEF FrontchannelLogout, idpVars
<1>4. CASE \E bySid \in BOOLEAN : BackchannelLogout(l, bySid)
  BY <1>2, <1>4 DEF BackchannelLogout
<1> QED BY <1>1, <1>3, <1>4

\* A visit that moves on of its own.
LEMMA VisitGoes ==
    ASSUME OidcTypes, NEW v \in Visits, NEW pc \in {"accepted", "refused", "unavailable", "waiting", "revoking"},
           NEW doomed \in BOOLEAN,
           visit' = [visit EXCEPT ![v] = [visit[v] EXCEPT !.pc = pc, !.doomed = doomed]]
    PROVE  /\ visit' \in [Visits -> VisitRec]
           /\ visit'[v].pc = pc /\ visit'[v].on = visit[v].on /\ visit'[v].doomed = doomed
           /\ \A w \in Visits \ {v} : visit'[w] = visit[w]
<1> DEFINE rec == [visit[v] EXCEPT !.pc = pc, !.doomed = doomed]
<1>1. visit \in [Visits -> VisitRec]
  BY DEF OidcTypes
<1>2. rec \in VisitRec /\ rec.pc = pc /\ rec.on = visit[v].on /\ rec.doomed = doomed
  BY <1>1 DEF VisitRec
<1> HIDE DEF rec
<1>3. visit' = [visit EXCEPT ![v] = rec]
  BY DEF rec
<1> QED BY <1>1, <1>2, <1>3

LEMMA VisitSteps ==
    ASSUME OidcInv, NEW v \in Visits,
           \/ \E l \in Logins : ReadSession(v, l)
           \/ VerifyOidc(v) \/ RequireLogin(v)
    PROVE  OidcInv'
<1>1. OidcTypes /\ LoginsInv /\ VisitsInv
  BY DEF OidcInv
<1>2. /\ visit \in [Visits -> VisitRec] /\ sso \in [Logins -> SsoRec] /\ check \in [Logins -> CheckRec]
  BY <1>1 DEF OidcTypes
<1>3. visit[v] \in VisitRec
  BY <1>2
<1>4. ASSUME NEW l \in Logins, ReadSession(v, l) PROVE OidcInv'
  <2> DEFINE rec == [NoVisit EXCEPT !.pc = "read", !.on = l, !.row = sso[l], !.role = ssoRole]
  <2>1. rec \in VisitRec /\ rec.pc = "read" /\ rec.on = l
    BY <1>1, NoVisitIs DEF OidcTypes, VisitRec
  <2>2. /\ UNCHANGED <<idpVars, signIn, sso, ssoRole, check, pastVars>> /\ sso[l].state = "live"
        /\ visit' = [visit EXCEPT ![v] = rec]
    BY <1>4 DEF ReadSession, Live
  <2> HIDE DEF rec
  <2>3. /\ visit' \in [Visits -> VisitRec] /\ visit'[v] = rec
        /\ \A w \in Visits \ {v} : visit'[w] = visit[w]
    BY <1>2, <2>1, <2>2
  <2>4. OidcTypes' /\ LoginsInv'
    BY <1>1, <2>2, <2>3 DEF OidcTypes, LoginsInv, idpVars, pastVars
  <2>5. ASSUME NEW w \in Visits, visit'[w].pc \notin {"idle", "unavailable"}
        PROVE  LET k == visit'[w].on IN
               k \in Logins /\ WordOK(visit'[w], sso'[k], check'[k].pc, idpSession'[k], idpGroup')
    <3>1. CASE w = v
      BY <2>1, <2>2, <2>3, <3>1 DEF WordOK
    <3>2. CASE w # v
      BY <1>1, <2>2, <2>3, <2>5, <3>2 DEF VisitsInv, idpVars
    <3> QED BY <3>1, <3>2
  <2> QED BY <2>4, <2>5 DEF OidcInv, VisitsInv
<1>5. CASE VerifyOidc(v)
  <2> DEFINE l == visit[v].on
             row == visit[v].row
             doomed == Doomed(v)
  <2>1. /\ visit[v].pc = "read" /\ UNCHANGED <<idpVars, signIn, sso, ssoRole, pastVars>>
    BY <1>5 DEF VerifyOidc
  <2>2. l \in Logins /\ sso[l].state # "none" /\ row \in SsoRec /\ visit[v].role \in Roles
    BY <1>1, <1>3, <2>1 DEF VisitsInv, WordOK, VisitRec
  <2>3. doomed \in BOOLEAN
        /\ (doomed => /\ row.due \/ row.lapsed
                      /\ sso[l].due \/ sso[l].lapsed
                      /\ idpSession[l] = "closed" \/ idpGroup = Outside
                      /\ check[l].pc # "update")
    BY DEF Doomed
  <2>4. \A w \in Visits : visit[w].pc \notin {"idle", "unavailable"} => visit[w].on \in Logins
    BY <1>1 DEF VisitsInv
  <2>5. ASSUME NEW pc \in {"accepted", "revoking"}, UNCHANGED check, NEW bad \in BOOLEAN,
               visit' = [visit EXCEPT ![v] = [visit[v] EXCEPT !.pc = pc, !.doomed = bad]],
               pc = "accepted" => ~bad
        PROVE  OidcInv'
    <3>1. /\ visit' \in [Visits -> VisitRec]
          /\ visit'[v].pc = pc /\ visit'[v].on = visit[v].on /\ visit'[v].doomed = bad
          /\ \A w \in Visits \ {v} : visit'[w] = visit[w]
      BY <1>1, <2>5, VisitGoes
    <3>2. OidcTypes' /\ LoginsInv'
      BY <1>1, <2>1, <2>5, <3>1 DEF OidcTypes, LoginsInv, idpVars, pastVars
    <3>3. \A m \in Logins : KeepsWord(m)
      BY <2>1, <2>5 DEF KeepsWord, idpVars
    <3>4. \A m \in Logins : sso[m].state # "none" => sso'[m].state # "none"
      BY <2>1
    <3>5. \A w \in Visits :
              \/ visit'[w] = visit[w] /\ (visit[w].pc = "waiting" => KeepsWord(visit[w].on))
              \/ visit'[w].pc \in {"idle", "unavailable"}
              \/ /\ visit[w].pc \notin {"idle", "unavailable"} /\ visit'[w].on = visit[w].on
                 /\ visit'[w].pc # "waiting" /\ (visit'[w].pc = "accepted" => ~visit'[w].doomed)
      BY <2>1, <2>4, <2>5, <3>1, <3>3
    <3> QED BY <1>1, <3>2, <3>4, <3>5, VisitsMove DEF OidcInv
  <2>6. CASE ~row.tokens
    <3>1. UNCHANGED check /\ visit' = [visit EXCEPT ![v].pc = "revoking"]
      BY <1>5, <2>6 DEF VerifyOidc
    <3>2. visit' = [visit EXCEPT ![v] = [visit[v] EXCEPT !.pc = "revoking", !.doomed = visit[v].doomed]]
          /\ visit[v].doomed \in BOOLEAN
      BY <1>2, <1>3, <3>1 DEF VisitRec
    <3> QED BY <2>5, <3>1, <3>2
  <2>7. CASE row.tokens /\ Fresh(row)
    <3>1. UNCHANGED check /\ visit' = [visit EXCEPT ![v].pc = "accepted", ![v].doomed = doomed]
      BY <1>5, <2>7 DEF VerifyOidc
    <3>2. ~doomed
      BY <2>3, <2>7 DEF Fresh
    <3> HIDE DEF doomed
    <3>3. visit' = [visit EXCEPT ![v] = [visit[v] EXCEPT !.pc = "accepted", !.doomed = doomed]]
      BY <1>2, <1>3, <3>1 DEF VisitRec
    <3> QED BY <2>3, <2>5, <3>1, <3>2, <3>3
  <2>8. CASE row.tokens /\ ~Fresh(row)
    <3> DEFINE new == [NoCheck EXCEPT !.pc = "reread", !.row = row, !.role = visit[v].role]
    <3>1. /\ visit' = [visit EXCEPT ![v].pc = "waiting", ![v].doomed = doomed]
          /\ check' = IF check[l].pc # "none" THEN check ELSE [check EXCEPT ![l] = new]
      BY <1>5, <2>8 DEF VerifyOidc
    <3>2. new \in CheckRec /\ new.pc = "reread" /\ new.renewed = 0
      BY <2>2, NoCheckIs DEF CheckRec
    <3> HIDE DEF new, doomed
    <3>3. visit' = [visit EXCEPT ![v] = [visit[v] EXCEPT !.pc = "waiting", !.doomed = doomed]]
      BY <1>2, <1>3, <3>1 DEF VisitRec
    <3>4. /\ visit' \in [Visits -> VisitRec]
          /\ visit'[v].pc = "waiting" /\ visit'[v].on = l /\ visit'[v].doomed = doomed
          /\ \A w \in Visits \ {v} : visit'[w] = visit[w]
      BY <1>1, <2>3, <3>3, VisitGoes
    <3> HIDE DEF l
    <3>5. /\ check' \in [Logins -> CheckRec]
          /\ \A m \in Logins \ {l} : check'[m] = check[m]
          /\ \/ check'[l] = check[l]
             \/ check[l].pc = "none" /\ check'[l] = new
      BY <1>2, <2>2, <3>1, <3>2
    <3>6. OidcTypes'
      BY <1>1, <2>1, <3>4, <3>5 DEF OidcTypes, idpVars, pastVars
    <3>7. LoginsInv'
      <4>1. OtherLogins(l)
        BY <2>1, <3>5 DEF OtherLogins, idpVars, pastVars
      <4>2. LoginOK(signIn[l], sso[l], check[l], idpRefresh[l], spent[l], lostRefresh[l], loggedOut[l])
        BY <1>1, <2>2 DEF LoginsInv
      <4>3. LoginOK(signIn[l], sso[l], check'[l], idpRefresh[l], spent[l], lostRefresh[l], loggedOut[l])
        BY <2>2, <3>2, <3>5, <4>2 DEF LoginOK, UnderWay
      <4>4. LoginOK(signIn'[l], sso'[l], check'[l], idpRefresh'[l], spent'[l], lostRefresh'[l], loggedOut'[l])
        BY <2>1, <4>3 DEF idpVars, pastVars
      <4> QED BY <1>1, <2>2, <4>1, <4>4, LoginMoves
    <3>8. ASSUME NEW w \in Visits, visit'[w].pc \notin {"idle", "unavailable"}
          PROVE  LET k == visit'[w].on IN
                 k \in Logins /\ WordOK(visit'[w], sso'[k], check'[k].pc, idpSession'[k], idpGroup')
      <4>1. CASE w = v
        BY <2>1, <2>2, <2>3, <3>2, <3>4, <3>5, <4>1 DEF WordOK, idpVars, l
      <4>2. CASE w # v
        <5>1. visit[w].on \in Logins
              /\ WordOK(visit[w], sso[visit[w].on], check[visit[w].on].pc, idpSession[visit[w].on], idpGroup)
          BY <1>1, <3>4, <3>8, <4>2 DEF VisitsInv
        <5>2. check'[visit[w].on].pc = "update" => check[visit[w].on].pc = "update"
          BY <3>2, <3>5, <5>1
        <5> QED BY <2>1, <3>4, <4>2, <5>1, <5>2 DEF WordOK, idpVars
      <4> QED BY <4>1, <4>2
    <3> QED BY <3>6, <3>7, <3>8 DEF OidcInv, VisitsInv
  <2> QED BY <2>6, <2>7, <2>8
<1>6. CASE RequireLogin(v)
  <2>1. visit[v].pc = "revoking" /\ UNCHANGED <<idpVars, signIn, ssoRole, check, pastVars>>
    BY <1>6 DEF RequireLogin
  <2>2. PICK pc \in {"refused", "unavailable"} :
           /\ visit' = [visit EXCEPT ![v].pc = pc]
           /\ sso' = sso \/ RevokeSessions({visit[v].on})
    BY <1>6 DEF RequireLogin
  <2>3. visit' = [visit EXCEPT ![v] = [visit[v] EXCEPT !.pc = pc, !.doomed = visit[v].doomed]]
        /\ visit[v].doomed \in BOOLEAN
    BY <1>2, <1>3, <2>2 DEF VisitRec
  <2>4. /\ visit' \in [Visits -> VisitRec]
        /\ visit'[v].pc = pc /\ visit'[v].on = visit[v].on
        /\ \A w \in Visits \ {v} : visit'[w] = visit[w]
    BY <1>1, <2>3, VisitGoes
  <2>5. /\ sso' \in [Logins -> SsoRec]
        /\ \A l \in Logins : \/ sso'[l] = sso[l]
                             \/ /\ sso'[l].state = "revoked" /\ ~sso'[l].tokens /\ sso'[l].refresh = 0
                                /\ sso'[l].due = sso[l].due /\ sso'[l].lapsed = sso[l].lapsed
                                /\ sso[l].state = "live"
    BY <1>2, <2>2, RevokedIs
  <2>6. OidcTypes'
    BY <1>1, <2>1, <2>4, <2>5 DEF OidcTypes, idpVars, pastVars
  <2>7. LoginsInv'
    <3>1. ASSUME NEW l \in Logins
          PROVE  LoginOK(signIn[l], sso'[l], check[l], idpRefresh[l], spent[l], lostRefresh[l], loggedOut[l])
      BY <1>1, <2>5, RevokedOK DEF LoginsInv
    <3> QED BY <2>1, <3>1 DEF LoginsInv, idpVars, pastVars
  <2>8. \A l \in Logins : KeepsWord(l) /\ (sso[l].state # "none" => sso'[l].state # "none")
    BY <2>1, <2>5 DEF KeepsWord, idpVars
  <2>9. \A w \in Visits :
            \/ visit'[w] = visit[w] /\ (visit[w].pc = "waiting" => KeepsWord(visit[w].on))
            \/ visit'[w].pc \in {"idle", "unavailable"}
            \/ /\ visit[w].pc \notin {"idle", "unavailable"} /\ visit'[w].on = visit[w].on
               /\ visit'[w].pc # "waiting" /\ (visit'[w].pc = "accepted" => ~visit'[w].doomed)
    <3>1. \A w \in Visits : visit[w].pc = "waiting" => visit[w].on \in Logins
      BY <1>1 DEF VisitsInv
    <3> QED BY <2>1, <2>4, <2>8, <3>1
  <2> QED BY <1>1, <2>6, <2>7, <2>8, <2>9, VisitsMove DEF OidcInv
<1> QED BY <1>4, <1>5, <1>6

-----------------------------------------------------------------------------
(* The check of a session.                                                    *)

\* Of refresh tokens only those of l change.
TokensOf(l) ==
    /\ idpRefresh' \in [Logins -> Nat] /\ spent' \in [Logins -> SUBSET Nat]
    /\ lostRefresh' \in [Logins -> BOOLEAN]
    /\ \A m \in Logins \ {l} : /\ idpRefresh'[m] = idpRefresh[m] /\ spent'[m] = spent[m]
                               /\ lostRefresh'[m] = lostRefresh[m]

LEMMA TokensAreKept ==
    ASSUME OidcTypes, NEW l \in Logins, UNCHANGED <<idpRefresh, spent, lostRefresh>>
    PROVE  TokensOf(l)
BY DEF OidcTypes, TokensOf

LEMMA CheckMoves ==
    ASSUME OidcInv, NEW l \in Logins, NEW rec \in CheckRec, check' = [check EXCEPT ![l] = rec],
           UNCHANGED <<idpGroup, idpSession, signIn, sso, ssoRole, visit, loggedOut>>, TokensOf(l),
           LoginOK(signIn[l], sso[l], rec, idpRefresh'[l], spent'[l], lostRefresh'[l], loggedOut[l]),
           rec.pc = "update" => idpSession[l] # "closed" /\ idpGroup # Outside
    PROVE  OidcInv'
<1>1. OidcTypes /\ LoginsInv /\ VisitsInv
  BY DEF OidcInv
<1>2. /\ check' \in [Logins -> CheckRec] /\ check'[l] = rec
      /\ \A m \in Logins \ {l} : check'[m] = check[m]
  BY <1>1 DEF OidcTypes
<1>3. OidcTypes'
  BY <1>1, <1>2 DEF OidcTypes, TokensOf
<1>4. LoginsInv'
  BY <1>1, <1>2, LoginMoves DEF OtherLogins, TokensOf
<1>5. \A m \in Logins : KeepsWord(m)
  BY <1>2 DEF KeepsWord
<1>6. ASSUME NEW v \in Visits, visit[v].pc = "waiting" PROVE KeepsWord(visit[v].on)
  BY <1>1, <1>5, <1>6 DEF VisitsInv
<1>7. VisitsInv'
  BY <1>1, <1>6, VisitsMove
<1> QED BY <1>3, <1>4, <1>7 DEF OidcInv

LEMMA CheckEnds ==
    ASSUME OidcInv, NEW l \in Logins, NEW p \in {"accepted", "refused", "unavailable"}, EndCheck(l, p),
           UNCHANGED <<idpGroup, idpSession, signIn, ssoRole, loggedOut>>, TokensOf(l),
           sso' \in [Logins -> SsoRec],
           \A m \in Logins \ {l} :
                \/ sso'[m] = sso[m]
                \/ /\ sso'[m].state = "revoked" /\ ~sso'[m].tokens /\ sso'[m].refresh = 0
                   /\ sso'[m].due = sso[m].due /\ sso'[m].lapsed = sso[m].lapsed
                   /\ sso[m].state = "live",
           sso[l].state # "none" => sso'[l].state # "none",
           LoginOK(signIn[l], sso'[l], NoCheck, idpRefresh'[l], spent'[l], lostRefresh'[l], loggedOut[l]),
           p = "accepted" => \A v \in Visits : visit[v].pc = "waiting" /\ visit[v].on = l => ~visit[v].doomed
    PROVE  OidcInv'
<1>1. OidcTypes /\ LoginsInv /\ VisitsInv
  BY DEF OidcInv
<1>2. NoCheck \in CheckRec /\ NoCheck.pc = "none"
  BY NoCheckIs
<1>3. /\ check' \in [Logins -> CheckRec] /\ check'[l] = NoCheck
      /\ \A m \in Logins \ {l} : check'[m] = check[m]
  BY <1>1, <1>2 DEF OidcTypes, EndCheck
<1>4. \A m \in Logins \ {l} : KeepsWord(m) /\ (sso[m].state # "none" => sso'[m].state # "none")
  BY <1>3 DEF KeepsWord
<1>5. VisitsInv' /\ visit' \in [Visits -> VisitRec]
  BY <1>1, <1>4, VisitsEnd DEF EndCheck
<1>6. OidcTypes'
  BY <1>1, <1>3, <1>5 DEF OidcTypes, TokensOf
<1>7. ASSUME NEW m \in Logins
      PROVE  LoginOK(signIn'[m], sso'[m], check'[m], idpRefresh'[m], spent'[m], lostRefresh'[m], loggedOut'[m])
  <2>1. CASE m = l
    BY <1>3, <2>1
  <2>2. CASE m # l
    <3>1. LoginOK(signIn[m], sso'[m], check[m], idpRefresh[m], spent[m], lostRefresh[m], loggedOut[m])
      BY <1>1, <2>2, RevokedOK DEF LoginsInv
    <3> QED BY <1>3, <2>2, <3>1 DEF TokensOf
  <2> QED BY <2>1, <2>2
<1> QED BY <1>5, <1>6, <1>7 DEF OidcInv, LoginsInv

\* A check that ends leaves a session that may present its token, or the token it
\* had was lost.
LEMMA EndedOK ==
    ASSUME NEW in, NEW s, NEW c, NEW works, NEW used, NEW lost, NEW out, NEW after \in BOOLEAN,
           LoginOK(in, s, c, works, used, lost, out),
           lost => after,
           after \/ s.refresh \notin used
    PROVE  LoginOK(in, s, NoCheck, works, used, after, out)
BY NoCheckIs DEF LoginOK, UnderWay

LEMMA RereadKeeps ==
    ASSUME OidcInv, NEW l \in Logins, Reread(l)
    PROVE  OidcInv'
<1>1. OidcTypes /\ LoginsInv /\ VisitsInv
  BY DEF OidcInv
<1>2. /\ sso[l] \in SsoRec /\ sso \in [Logins -> SsoRec] /\ check[l] \in CheckRec /\ lostRefresh[l] \in BOOLEAN
  BY <1>1 DEF OidcTypes
<1>3. LoginOK(signIn[l], sso[l], check[l], idpRefresh[l], spent[l], lostRefresh[l], loggedOut[l])
  BY <1>1 DEF LoginsInv
<1>4. /\ check[l].pc = "reread"
      /\ UNCHANGED <<idpGroup, idpSession, signIn, sso, ssoRole, loggedOut>> /\ TokensOf(l)
      /\ idpRefresh' = idpRefresh /\ spent' = spent /\ lostRefresh' = lostRefresh
  BY <1>1, TokensAreKept DEF Reread, idpVars, pastVars
<1>5. lostRefresh[l] \/ sso[l].refresh \notin spent[l]
  BY <1>3, <1>4 DEF LoginOK
<1>6. LoginOK(signIn[l], sso'[l], NoCheck, idpRefresh'[l], spent'[l], lostRefresh'[l], loggedOut[l])
  BY <1>2, <1>3, <1>4, <1>5, EndedOK
<1>7. CASE ~Live(l)
  <2>1. EndCheck(l, "refused")
    BY <1>4, <1>7 DEF Reread
  <2> QED BY <1>2, <1>4, <1>6, <2>1, CheckEnds
<1>8. CASE Live(l) /\ Fresh(sso[l])
  <2>1. EndCheck(l, "accepted")
    <3>1. sso[l].tokens
      BY <1>8 DEF Fresh
    <3> QED BY <1>4, <1>8, <3>1 DEF Reread
  <2>2. \A v \in Visits : visit[v].pc = "waiting" /\ visit[v].on = l => ~visit[v].doomed
    BY <1>1, <1>8 DEF VisitsInv, WordOK, Fresh
  <2> QED BY <1>2, <1>4, <1>6, <2>1, <2>2, CheckEnds
<1>9. CASE Live(l) /\ ~Fresh(sso[l]) /\ ~sso[l].tokens
  <2> DEFINE rec == [check[l] EXCEPT !.pc = "revoke"]
  <2>1. check' = [check EXCEPT ![l] = rec] /\ visit' = visit
    BY <1>1, <1>4, <1>9 DEF Reread, Checking, OidcTypes
  <2>2. rec \in CheckRec /\ rec.pc = "revoke" /\ rec.renewed = check[l].renewed
    BY <1>2 DEF CheckRec
  <2> HIDE DEF rec
  <2>3. LoginOK(signIn[l], sso[l], rec, idpRefresh'[l], spent'[l], lostRefresh'[l], loggedOut[l])
    BY <1>3, <1>4, <1>9, <2>2 DEF LoginOK, UnderWay, Live
  <2> QED BY <1>4, <2>1, <2>2, <2>3, CheckMoves
<1>10. CASE Live(l) /\ ~Fresh(sso[l]) /\ sso[l].tokens
  <2> DEFINE pc == IF sso[l].lapsed THEN "refresh" ELSE "userinfo"
             rec == [check[l] EXCEPT !.row = sso[l], !.pc = pc]
  <2>1. check' = [check EXCEPT ![l].row = sso[l], ![l].pc = pc] /\ visit' = visit
    BY <1>4, <1>10 DEF Reread
  <2>2. pc \in {"refresh", "userinfo"}
    OBVIOUS
  <2> HIDE DEF pc
  <2>3. rec \in CheckRec /\ rec.pc = pc /\ rec.renewed = check[l].renewed /\ rec.row = sso[l]
    BY <1>2, <2>2 DEF CheckRec
  <2>4. check' = [check EXCEPT ![l] = rec]
    BY <1>1, <2>1 DEF OidcTypes, CheckRec
  <2> HIDE DEF rec
  <2>5. LoginOK(signIn[l], sso[l], rec, idpRefresh'[l], spent'[l], lostRefresh'[l], loggedOut[l])
    BY <1>3, <1>4, <1>5, <1>10, <2>2, <2>3 DEF LoginOK, UnderWay, Live
  <2> QED BY <1>4, <2>1, <2>2, <2>3, <2>4, <2>5, CheckMoves
<1> QED BY <1>7, <1>8, <1>9, <1>10

LEMMA RefreshKeeps ==
    ASSUME OidcInv, NEW l \in Logins, RefreshGrant(l)
    PROVE  OidcInv'
<1>1. OidcTypes /\ LoginsInv /\ VisitsInv
  BY DEF OidcInv
<1>2. /\ sso \in [Logins -> SsoRec] /\ check[l] \in CheckRec /\ lostRefresh[l] \in BOOLEAN
      /\ idpRefresh \in [Logins -> Nat] /\ spent \in [Logins -> SUBSET Nat]
      /\ lostRefresh \in [Logins -> BOOLEAN] /\ check \in [Logins -> CheckRec]
  BY <1>1 DEF OidcTypes
<1>3. LoginOK(signIn[l], sso[l], check[l], idpRefresh[l], spent[l], lostRefresh[l], loggedOut[l])
  BY <1>1 DEF LoginsInv
<1>4. /\ check[l].pc = "refresh" /\ check[l].renewed = 0
      /\ UNCHANGED <<idpGroup, idpSession, signIn, sso, ssoRole, loggedOut>>
      /\ sso[l].state # "none"
  BY <1>3 DEF RefreshGrant, LoginOK
<1>5. ASSUME Exchanges(l), check[l].row.refresh # 0, Works(l)
      PROVE  /\ idpRefresh' \in [Logins -> Nat] /\ idpRefresh'[l] = idpRefresh[l] + 1 /\ idpRefresh[l] # 0
             /\ spent' \in [Logins -> SUBSET Nat] /\ spent'[l] = spent[l] \cup {idpRefresh[l]}
             /\ \A m \in Logins \ {l} : idpRefresh'[m] = idpRefresh[m] /\ spent'[m] = spent[m]
  BY <1>2, <1>5 DEF Exchanges, Works
<1>6. CASE Checking(l, "revoke") /\ UNCHANGED <<idpRefresh, spent, visit, lostRefresh>>
  <2> DEFINE rec == [check[l] EXCEPT !.pc = "revoke"]
  <2>1. check' = [check EXCEPT ![l] = rec]
    BY <1>2, <1>6 DEF Checking
  <2>2. rec \in CheckRec /\ rec.pc = "revoke" /\ rec.renewed = check[l].renewed
    BY <1>2 DEF CheckRec
  <2> HIDE DEF rec
  <2>3. LoginOK(signIn[l], sso[l], rec, idpRefresh'[l], spent'[l], lostRefresh'[l], loggedOut[l])
    BY <1>3, <1>4, <1>6, <2>2 DEF LoginOK, UnderWay
  <2> QED BY <1>1, <1>4, <1>6, <2>1, <2>2, <2>3, TokensAreKept, CheckMoves
<1>7. CASE /\ check[l].row.refresh # 0 /\ Works(l) /\ Exchanges(l)
           /\ check' = [check EXCEPT ![l].pc = "userinfo", ![l].renewed = idpRefresh[l] + 1]
           /\ UNCHANGED <<visit, lostRefresh>>
  <2> DEFINE rec == [check[l] EXCEPT !.pc = "userinfo", !.renewed = idpRefresh[l] + 1]
  <2>1. rec \in CheckRec /\ rec.pc = "userinfo" /\ rec.renewed = idpRefresh[l] + 1 /\ rec.row = check[l].row
    <3>1. idpRefresh[l] + 1 \in Nat
      BY <1>2
    <3>2. ASSUME NEW c \in CheckRec, NEW n \in Nat
          PROVE  LET new == [c EXCEPT !.pc = "userinfo", !.renewed = n]
                 IN  new \in CheckRec /\ new.pc = "userinfo" /\ new.renewed = n /\ new.row = c.row
      BY DEF CheckRec
    <3> QED BY <1>2, <3>1, <3>2
  <2>2. check' = [check EXCEPT ![l] = rec]
    BY <1>2, <1>7 DEF CheckRec
  <2> HIDE DEF rec
  <2>3. TokensOf(l)
    BY <1>2, <1>5, <1>7 DEF TokensOf
  <2>4. LoginOK(signIn[l], sso[l], rec, idpRefresh'[l], spent'[l], lostRefresh'[l], loggedOut[l])
    BY <1>2, <1>3, <1>4, <1>5, <1>7, <2>1 DEF LoginOK, UnderWay
  <2> QED BY <1>4, <1>7, <2>1, <2>2, <2>3, <2>4, CheckMoves
<1>8. CASE /\ check[l].row.refresh # 0 /\ Works(l) /\ Exchanges(l) /\ EndCheck(l, "unavailable")
           /\ lostRefresh' = [lostRefresh EXCEPT ![l] = TRUE]
  <2>1. lostRefresh' \in [Logins -> BOOLEAN] /\ lostRefresh'[l] = TRUE
        /\ \A m \in Logins \ {l} : lostRefresh'[m] = lostRefresh[m]
    BY <1>2, <1>8
  <2>2. TokensOf(l)
    BY <1>2, <1>5, <1>8, <2>1 DEF TokensOf
  <2>3. LoginOK(signIn[l], sso[l], NoCheck, idpRefresh'[l], spent'[l], lostRefresh'[l], loggedOut[l])
    BY <1>2, <1>3, <1>4, <1>5, <1>8, <2>1, NoCheckIs DEF LoginOK, UnderWay
  <2> QED BY <1>2, <1>4, <1>8, <2>2, <2>3, CheckEnds
<1>9. CASE EndCheck(l, "unavailable") /\ UNCHANGED <<idpRefresh, spent, lostRefresh>>
  <2>1. lostRefresh[l] \/ sso[l].refresh \notin spent[l]
    BY <1>3, <1>4 DEF LoginOK
  <2>2. LoginOK(signIn[l], sso[l], NoCheck, idpRefresh'[l], spent'[l], lostRefresh'[l], loggedOut[l])
    BY <1>2, <1>3, <1>9, <2>1, EndedOK
  <2> QED BY <1>1, <1>2, <1>4, <1>9, <2>2, TokensAreKept, CheckEnds
<1> QED BY <1>6, <1>7, <1>8, <1>9 DEF RefreshGrant

\* What forgets a renewed token notes that it is lost.
LEMMA ForgetsIs ==
    ASSUME OidcInv, NEW l \in Logins, Forgets(l), UNCHANGED <<idpRefresh, spent, sso>>
    PROVE  /\ TokensOf(l)
           /\ LoginOK(signIn[l], sso'[l], NoCheck, idpRefresh'[l], spent'[l], lostRefresh'[l], loggedOut[l])
<1>1. OidcTypes /\ LoginsInv
  BY DEF OidcInv
<1>2. /\ lostRefresh \in [Logins -> BOOLEAN] /\ lostRefresh[l] \in BOOLEAN /\ check[l] \in CheckRec
  BY <1>1 DEF OidcTypes
<1>3. LoginOK(signIn[l], sso[l], check[l], idpRefresh[l], spent[l], lostRefresh[l], loggedOut[l])
  BY <1>1 DEF LoginsInv
<1> DEFINE lost == lostRefresh[l] \/ check[l].renewed # 0
<1>4. lost \in BOOLEAN /\ lostRefresh' = [lostRefresh EXCEPT ![l] = lost]
  BY <1>2 DEF Forgets
<1>5. /\ lostRefresh' \in [Logins -> BOOLEAN] /\ lostRefresh'[l] = lost
      /\ \A m \in Logins \ {l} : lostRefresh'[m] = lostRefresh[m]
  BY <1>2, <1>4
<1>6. TokensOf(l)
  BY <1>1, <1>5 DEF OidcTypes, TokensOf
<1>7. lost \/ sso[l].refresh \notin spent[l]
  BY <1>3 DEF LoginOK
<1>8. lostRefresh[l] => lost
  OBVIOUS
<1> HIDE DEF lost
<1> QED BY <1>3, <1>4, <1>5, <1>6, <1>7, <1>8, EndedOK

LEMMA UserInfoKeeps ==
    ASSUME OidcInv, NEW l \in Logins, FetchUserInfo(l)
    PROVE  OidcInv'
<1>1. OidcTypes /\ LoginsInv /\ VisitsInv
  BY DEF OidcInv
<1>2. sso \in [Logins -> SsoRec] /\ check[l] \in CheckRec /\ check \in [Logins -> CheckRec]
  BY <1>1 DEF OidcTypes
<1>3. LoginOK(signIn[l], sso[l], check[l], idpRefresh[l], spent[l], lostRefresh[l], loggedOut[l])
  BY <1>1 DEF LoginsInv
<1>4. /\ check[l].pc = "userinfo" /\ UNCHANGED <<idpVars, signIn, sso, ssoRole, spent, loggedOut>>
  BY DEF FetchUserInfo
<1>5. ASSUME NEW pc \in {"revoke", "update", "revoke all"}, Checking(l, pc), UNCHANGED <<visit, lostRefresh>>,
             pc = "update" => idpSession[l] # "closed" /\ idpGroup # Outside
      PROVE  OidcInv'
  <2> DEFINE rec == [check[l] EXCEPT !.pc = pc]
  <2>1. check' = [check EXCEPT ![l] = rec]
    BY <1>2, <1>5 DEF Checking
  <2>2. rec \in CheckRec /\ rec.pc = pc /\ rec.renewed = check[l].renewed /\ rec.row = check[l].row
    BY <1>2 DEF CheckRec
  <2> HIDE DEF rec
  <2>3. LoginOK(signIn[l], sso[l], rec, idpRefresh'[l], spent'[l], lostRefresh'[l], loggedOut[l])
    BY <1>3, <1>4, <1>5, <2>2 DEF LoginOK, UnderWay, idpVars
  <2> QED BY <1>1, <1>4, <1>5, <2>1, <2>2, <2>3, TokensAreKept, CheckMoves DEF idpVars
<1>6. CASE idpSession[l] = "closed" /\ Checking(l, "revoke") /\ UNCHANGED <<visit, lostRefresh>>
  BY <1>5, <1>6
<1>7. CASE /\ idpSession[l] = "open" /\ UNCHANGED <<visit, lostRefresh>>
           /\ Checking(l, IF idpGroup = check[l].role THEN "update" ELSE "revoke all")
  <2>1. check[l].role # Outside
    BY <1>2, OidcAssumption DEF CheckRec, Roles
  <2>2. CASE idpGroup = check[l].role
    BY <1>5, <1>7, <2>1, <2>2
  <2>3. CASE idpGroup # check[l].role
    BY <1>5, <1>7, <2>3
  <2> QED BY <2>2, <2>3
<1>8. CASE EndCheck(l, "unavailable") /\ Forgets(l)
  <2>1. /\ TokensOf(l)
        /\ LoginOK(signIn[l], sso'[l], NoCheck, idpRefresh'[l], spent'[l], lostRefresh'[l], loggedOut[l])
    BY <1>4, <1>8, ForgetsIs DEF idpVars
  <2> QED BY <1>2, <1>4, <1>8, <2>1, CheckEnds DEF idpVars
<1> QED BY <1>6, <1>7, <1>8 DEF FetchUserInfo

LEMMA RevokeCheckedKeeps ==
    ASSUME OidcInv, NEW l \in Logins, RevokeChecked(l)
    PROVE  OidcInv'
<1>1. OidcTypes /\ LoginsInv /\ VisitsInv
  BY DEF OidcInv
<1>2. sso \in [Logins -> SsoRec] /\ lostRefresh[l] \in BOOLEAN
  BY <1>1 DEF OidcTypes
<1>3. LoginOK(signIn[l], sso[l], check[l], idpRefresh[l], spent[l], lostRefresh[l], loggedOut[l])
  BY <1>1 DEF LoginsInv
<1>4. UNCHANGED <<idpVars, signIn, ssoRole, spent, loggedOut>>
  BY DEF RevokeChecked
<1>5. CASE UNCHANGED sso /\ EndCheck(l, "unavailable") /\ Forgets(l)
  <2>1. /\ TokensOf(l)
        /\ LoginOK(signIn[l], sso'[l], NoCheck, idpRefresh'[l], spent'[l], lostRefresh'[l], loggedOut[l])
    BY <1>4, <1>5, ForgetsIs DEF idpVars
  <2> QED BY <1>2, <1>4, <1>5, <2>1, CheckEnds DEF idpVars
<1>6. ASSUME NEW gone, l \in gone, RevokeSessions(gone), EndCheck(l, "refused"), UNCHANGED lostRefresh
      PROVE  OidcInv'
  <2>1. /\ sso' \in [Logins -> SsoRec]
        /\ \A m \in Logins : \/ sso'[m] = sso[m] /\ (m \notin gone \/ sso[m].state # "live")
                             \/ /\ sso'[m].state = "revoked" /\ ~sso'[m].tokens /\ sso'[m].refresh = 0
                                /\ sso'[m].due = sso[m].due /\ sso'[m].lapsed = sso[m].lapsed
                                /\ sso[m].state = "live"
    BY <1>2, <1>6, RevokedIs
  <2>2. LoginOK(signIn[l], sso'[l], check[l], idpRefresh[l], spent[l], lostRefresh[l], loggedOut[l])
    BY <1>3, <2>1, RevokedOK
  <2>3. sso'[l].refresh \notin spent[l]
    BY <1>3, <1>6, <2>1 DEF LoginOK
  <2>4. LoginOK(signIn[l], sso'[l], NoCheck, idpRefresh'[l], spent'[l], lostRefresh'[l], loggedOut[l])
    BY <1>2, <1>4, <1>6, <2>2, <2>3, EndedOK DEF idpVars
  <2>5. TokensOf(l)
    BY <1>1, <1>4, <1>6, TokensAreKept DEF idpVars
  <2> QED BY <1>4, <1>6, <2>1, <2>4, <2>5, CheckEnds DEF idpVars
<1> QED BY <1>5, <1>6 DEF RevokeChecked

LEMMA StoreAnswerKeeps ==
    ASSUME OidcInv, NEW l \in Logins, StoreAnswer(l)
    PROVE  OidcInv'
<1>1. OidcTypes /\ LoginsInv /\ VisitsInv
  BY DEF OidcInv
<1>2. /\ sso \in [Logins -> SsoRec] /\ sso[l] \in SsoRec /\ check[l] \in CheckRec
      /\ lostRefresh[l] \in BOOLEAN /\ idpRefresh[l] \in Nat
  BY <1>1 DEF OidcTypes
<1>3. LoginOK(signIn[l], sso[l], check[l], idpRefresh[l], spent[l], lostRefresh[l], loggedOut[l])
  BY <1>1 DEF LoginsInv
<1>4. check[l].pc = "update" /\ UNCHANGED <<idpVars, signIn, ssoRole, spent, loggedOut>>
  BY DEF StoreAnswer
<1>5. CASE EndCheck(l, "unavailable") /\ Forgets(l) /\ UNCHANGED sso
  <2>1. /\ TokensOf(l)
        /\ LoginOK(signIn[l], sso'[l], NoCheck, idpRefresh'[l], spent'[l], lostRefresh'[l], loggedOut[l])
    BY <1>4, <1>5, ForgetsIs DEF idpVars
  <2> QED BY <1>2, <1>4, <1>5, <2>1, CheckEnds DEF idpVars
<1>6. CASE ~(Live(l) /\ sso[l].n = check[l].row.n) /\ EndCheck(l, "refused") /\ UNCHANGED <<sso, lostRefresh>>
  <2>1. sso[l].state # "live"
    BY <1>3, <1>4, <1>6 DEF LoginOK, UnderWay, Live
  <2>2. sso[l].refresh \notin spent[l]
    BY <1>3, <2>1 DEF LoginOK
  <2>3. LoginOK(signIn[l], sso'[l], NoCheck, idpRefresh'[l], spent'[l], lostRefresh'[l], loggedOut[l])
    BY <1>2, <1>3, <1>4, <1>6, <2>2, EndedOK DEF idpVars
  <2>4. TokensOf(l)
    BY <1>1, <1>4, <1>6, TokensAreKept DEF idpVars
  <2> QED BY <1>2, <1>4, <1>6, <2>3, <2>4, CheckEnds DEF idpVars
<1>7. CASE /\ Live(l) /\ sso' = [sso EXCEPT ![l] = Checked(l)]
           /\ EndCheck(l, "accepted") /\ UNCHANGED lostRefresh
  <2> DEFINE token == IF check[l].renewed # 0 THEN check[l].renewed ELSE check[l].row.refresh
             rec == [sso[l] EXCEPT !.due = FALSE, !.lapsed = FALSE, !.tokens = TRUE, !.n = @ + 1, !.refresh = token]
  <2>1. token \in Nat
    BY <1>2 DEF CheckRec, SsoRec
  <2>2. lostRefresh[l] \/ token \notin spent[l]
    <3>1. ASSUME check[l].renewed # 0 PROVE check[l].renewed \notin spent[l]
      <4>1. check[l].renewed = idpRefresh[l] /\ \A t \in spent[l] : t < idpRefresh[l]
        BY <1>3, <3>1 DEF LoginOK
      <4>2. idpRefresh[l] \notin spent[l]
        BY <1>2, <4>1
      <4> QED BY <4>1, <4>2
    <3>2. ASSUME check[l].renewed = 0 PROVE lostRefresh[l] \/ check[l].row.refresh \notin spent[l]
      BY <1>3, <1>4, <3>2 DEF LoginOK, UnderWay
    <3> QED BY <3>1, <3>2
  <2> HIDE DEF token
  <2>3. rec \in SsoRec /\ rec.state = sso[l].state /\ rec.refresh = token
    <3>1. ASSUME NEW s \in SsoRec, NEW t \in Nat
          PROVE  LET new == [s EXCEPT !.due = FALSE, !.lapsed = FALSE, !.tokens = TRUE, !.n = @ + 1, !.refresh = t]
                 IN  new \in SsoRec /\ new.state = s.state /\ new.refresh = t
      <4>1. s.n + 1 \in Nat
        BY DEF SsoRec
      <4> QED BY <4>1 DEF SsoRec
    <3> QED BY <1>2, <2>1, <3>1
  <2>4. sso' = [sso EXCEPT ![l] = rec]
    BY <1>7 DEF Checked, token
  <2> HIDE DEF rec
  <2>5. sso' \in [Logins -> SsoRec] /\ sso'[l] = rec /\ \A m \in Logins \ {l} : sso'[m] = sso[m]
    BY <1>2, <2>3, <2>4
  <2>6. LoginOK(signIn[l], rec, NoCheck, idpRefresh[l], spent[l], lostRefresh[l], loggedOut[l])
    BY <1>3, <1>7, <2>2, <2>3, NoCheckIs DEF LoginOK, UnderWay, Live
  <2>7. LoginOK(signIn[l], sso'[l], NoCheck, idpRefresh'[l], spent'[l], lostRefresh'[l], loggedOut[l])
    BY <1>4, <1>7, <2>5, <2>6 DEF idpVars
  <2>8. TokensOf(l)
    BY <1>1, <1>4, <1>7, TokensAreKept DEF idpVars
  <2>9. \A v \in Visits : visit[v].pc = "waiting" /\ visit[v].on = l => ~visit[v].doomed
    BY <1>1, <1>4 DEF VisitsInv, WordOK
  <2> QED BY <1>4, <1>7, <2>3, <2>5, <2>7, <2>8, <2>9, CheckEnds DEF idpVars
<1> QED BY <1>5, <1>6, <1>7 DEF StoreAnswer

-----------------------------------------------------------------------------
(* The provider, time, and the end of the process.                            *)

LEMMA ProviderSteps ==
    ASSUME OidcInv,
           \/ \E group \in Groups \cup {Outside} : IdpMoves(group)
           \/ \E l \in Logins : IdpCloses(l)
           \/ \E l \in Logins : AttemptExpires(l)
    PROVE  OidcInv'
<1>1. OidcTypes /\ LoginsInv /\ VisitsInv
  BY DEF OidcInv
<1>2. UNCHANGED <<idpRefresh, signIn, sso, ssoRole, check, visit, pastVars>>
  BY DEF IdpMoves, IdpCloses, AttemptExpires, idpVars
<1>3. /\ idpGroup' \in Groups \cup {Outside} /\ idpSession' \in [Logins -> {"none", "open", "closed"}]
      /\ idpGroup = Outside => idpGroup' = Outside
      /\ \A m \in Logins : idpSession[m] = "closed" => idpSession'[m] = "closed"
  <2>1. CASE \E group \in Groups \cup {Outside} : IdpMoves(group)
    BY <1>1, <2>1 DEF IdpMoves, OidcTypes
  <2>2. CASE \E l \in Logins : IdpCloses(l)
    BY <1>1, <2>2 DEF IdpCloses, OidcTypes
  <2>3. CASE \E l \in Logins : AttemptExpires(l)
    BY <1>1, <2>3 DEF AttemptExpires, OidcTypes, idpVars
  <2> QED BY <2>1, <2>2, <2>3
<1>4. OidcTypes'
  BY <1>1, <1>2, <1>3 DEF OidcTypes, pastVars
<1>5. LoginsInv'
  BY <1>1, <1>2 DEF LoginsInv, pastVars
<1>6. VisitsInv'
  BY <1>1, <1>2, <1>3 DEF VisitsInv, WordOK
<1> QED BY <1>4, <1>5, <1>6 DEF OidcInv

LEMMA TimeKeeps ==
    ASSUME OidcInv, NEW l \in Logins, TimePasses(l)
    PROVE  OidcInv'
<1>1. OidcTypes /\ LoginsInv /\ VisitsInv
  BY DEF OidcInv
<1>2. PICK new : /\ sso' = [sso EXCEPT ![l] = new]
                 /\ new = [sso[l] EXCEPT !.due = TRUE] \/ new = [sso[l] EXCEPT !.lapsed = TRUE]
  BY DEF TimePasses
<1>3. /\ new \in SsoRec
      /\ new.due \/ new.lapsed
      /\ new.state = sso[l].state /\ new.tokens = sso[l].tokens /\ new.refresh = sso[l].refresh /\ new.n = sso[l].n
  <2>1. sso[l] \in SsoRec
    BY <1>1 DEF OidcTypes
  <2> QED BY <1>2, <2>1 DEF SsoRec
<1>4. /\ sso' \in [Logins -> SsoRec] /\ sso'[l] = new /\ \A m \in Logins \ {l} : sso'[m] = sso[m]
  <2>1. sso \in [Logins -> SsoRec] /\ sso' = [sso EXCEPT ![l] = new]
    BY <1>1, <1>2 DEF OidcTypes
  <2>2. new \in SsoRec
    BY <1>3
  <2> QED BY <2>1, <2>2
<1>5. UNCHANGED <<idpVars, attempt, signIn, ssoRole, check, visit, pastVars>>
  BY DEF TimePasses
<1>6. OidcTypes'
  BY <1>1, <1>4, <1>5 DEF OidcTypes, idpVars, pastVars
<1>7. LoginsInv'
  <2>1. LoginOK(signIn[l], sso[l], check[l], idpRefresh[l], spent[l], lostRefresh[l], loggedOut[l])
    BY <1>1 DEF LoginsInv
  <2>2. LoginOK(signIn[l], new, check[l], idpRefresh[l], spent[l], lostRefresh[l], loggedOut[l])
    BY <1>3, <2>1 DEF LoginOK
  <2>3. OtherLogins(l)
    BY <1>4, <1>5 DEF OtherLogins, idpVars, pastVars
  <2> QED BY <1>1, <1>4, <1>5, <2>2, <2>3, LoginMoves DEF idpVars, pastVars
<1>8. \A m \in Logins : KeepsWord(m) /\ (sso[m].state # "none" => sso'[m].state # "none")
  BY <1>3, <1>4, <1>5 DEF KeepsWord, idpVars
<1>9. ASSUME NEW v \in Visits, visit[v].pc = "waiting" PROVE KeepsWord(visit[v].on)
  BY <1>1, <1>8, <1>9 DEF VisitsInv
<1>10. VisitsInv'
  BY <1>1, <1>5, <1>8, <1>9, VisitsMove
<1> QED BY <1>6, <1>7, <1>10 DEF OidcInv

LEMMA RestartKeeps ==
    ASSUME OidcInv, SsoRestart
    PROVE  OidcInv'
<1>1. OidcTypes /\ LoginsInv /\ VisitsInv
  BY DEF OidcInv
<1>2. UNCHANGED <<idpVars, sso, ssoRole, spent, loggedOut>>
  BY DEF SsoRestart
<1>3. /\ NoCheck \in CheckRec /\ NoVisit \in VisitRec
      /\ [NoVisit EXCEPT !.pc = "unavailable"] \in VisitRec
      /\ [NoVisit EXCEPT !.pc = "unavailable"].pc = "unavailable"
  BY NoCheckIs, NoVisitIs DEF VisitRec
<1> DEFINE gone == [NoVisit EXCEPT !.pc = "unavailable"]
<1> HIDE DEF gone
<1>4. /\ visit' \in [Visits -> VisitRec] /\ \A v \in Visits : visit'[v].pc \in {"idle", "unavailable"}
      /\ check' \in [Logins -> CheckRec] /\ \A l \in Logins : check'[l] = NoCheck
  BY <1>1, <1>3 DEF SsoRestart, OidcTypes, gone
<1>5. /\ lostRefresh' \in [Logins -> BOOLEAN]
      /\ \A l \in Logins : lostRefresh'[l] = (lostRefresh[l] \/ check[l].renewed # 0)
  BY <1>1 DEF SsoRestart, OidcTypes
<1>6. ASSUME NEW l \in Logins
      PROVE  /\ signIn'[l] \in SignInRec
             /\ signIn'[l] = signIn[l] \/ (signIn'[l].pc = "failed" /\ signIn[l].pc \notin {"in", "failed"})
  <2>1. signIn[l] \in SignInRec
    BY <1>1 DEF OidcTypes
  <2>2. signIn'[l] = signIn[l]
        \/ (signIn'[l] = [signIn[l] EXCEPT !.pc = "failed"] /\ signIn[l].pc \notin {"in", "failed"})
    BY DEF SsoRestart
  <2> QED BY <2>1, <2>2 DEF SignInRec
<1>7. signIn' \in [Logins -> SignInRec]
  BY <1>6 DEF SsoRestart
<1>8. OidcTypes'
  BY <1>1, <1>2, <1>4, <1>5, <1>7 DEF OidcTypes, idpVars
<1>9. ASSUME NEW l \in Logins
      PROVE  LoginOK(signIn'[l], sso'[l], check'[l], idpRefresh'[l], spent'[l], lostRefresh'[l], loggedOut'[l])
  <2>1. LoginOK(signIn[l], sso[l], check[l], idpRefresh[l], spent[l], lostRefresh[l], loggedOut[l])
    BY <1>1 DEF LoginsInv
  <2>2. LoginOK(signIn'[l], sso[l], check[l], idpRefresh[l], spent[l], lostRefresh[l], loggedOut[l])
    BY <1>6, <2>1 DEF LoginOK
  <2>3. /\ lostRefresh'[l] \in BOOLEAN /\ (lostRefresh[l] => lostRefresh'[l])
        /\ lostRefresh'[l] \/ sso[l].refresh \notin spent[l]
    BY <1>5, <2>1 DEF LoginOK
  <2>4. LoginOK(signIn'[l], sso[l], NoCheck, idpRefresh[l], spent[l], lostRefresh'[l], loggedOut[l])
    BY <2>2, <2>3, EndedOK
  <2> QED BY <1>2, <1>4, <2>4 DEF idpVars
<1>10. VisitsInv'
  BY <1>4 DEF VisitsInv
<1> QED BY <1>8, <1>9, <1>10 DEF OidcInv, LoginsInv

LEMMA OidcStarts == OidcInit => OidcInv
<1> SUFFICES ASSUME OidcInit PROVE OidcInv
  OBVIOUS
<1>1. /\ NoSession \in SsoRec /\ NoCheck \in CheckRec /\ NoVisit \in VisitRec /\ NoCheck.pc = "none"
      /\ NoSession.state = "none" /\ ~NoSession.tokens /\ NoSession.refresh = 0 /\ NoVisit.pc = "idle"
      /\ NoCheck.renewed = 0
  BY NoSessionIs, NoCheckIs, NoVisitIs
<1>2. [pc |-> "idle", group |-> NoOne] \in SignInRec
  BY DEF SignInRec
<1>3. OidcTypes
  BY <1>1, <1>2 DEF OidcInit, OidcTypes, Roles
<1>4. LoginsInv
  BY <1>1 DEF OidcInit, LoginsInv, LoginOK, UnderWay
<1>5. VisitsInv
  BY <1>1 DEF OidcInit, VisitsInv
<1> QED BY <1>3, <1>4, <1>5 DEF OidcInv

LEMMA OidcStep == OidcInv /\ [OidcNext]_ssoVars => OidcInv'
<1> SUFFICES ASSUME OidcInv, [OidcNext]_ssoVars PROVE OidcInv'
  OBVIOUS
<1>1. ASSUME NEW l \in Logins,
             \/ StartLogin(l) \/ InsertAttempt(l) \/ IdpLogin(l) \/ ClaimAttempt(l)
             \/ GrantCode(l) \/ ProvisionUser(l) \/ CreateSession(l)
      PROVE  OidcInv'
  BY <1>1, SignInSteps
<1>2. ASSUME NEW l \in Logins,
             \/ FrontchannelLogout(l) \/ Logout(l)
             \/ \E bySid \in BOOLEAN : BackchannelLogout(l, bySid)
      PROVE  OidcInv'
  BY <1>2, LogoutSteps
<1>3. ASSUME NEW l \in Logins,
             \/ Reread(l) \/ RefreshGrant(l) \/ FetchUserInfo(l) \/ RevokeChecked(l) \/ StoreAnswer(l)
      PROVE  OidcInv'
  BY <1>3, RereadKeeps, RefreshKeeps, UserInfoKeeps, RevokeCheckedKeeps, StoreAnswerKeeps
<1>4. ASSUME NEW l \in Logins, IdpCloses(l) \/ AttemptExpires(l) \/ TimePasses(l)
      PROVE  OidcInv'
  BY <1>4, ProviderSteps, TimeKeeps
<1>5. ASSUME NEW v \in Visits,
             \/ \E l \in Logins : ReadSession(v, l)
             \/ VerifyOidc(v) \/ RequireLogin(v)
      PROVE  OidcInv'
  BY <1>5, VisitSteps
<1>6. ASSUME NEW group \in Groups \cup {Outside}, IdpMoves(group)
      PROVE  OidcInv'
  BY <1>6, ProviderSteps
<1>7. CASE SsoRestart
  BY <1>7, RestartKeeps
<1>8. CASE UNCHANGED ssoVars
  BY <1>8 DEF OidcInv, OidcTypes, LoginsInv, VisitsInv, ssoVars, idpVars, pastVars
<1> QED BY <1>1, <1>2, <1>3, <1>4, <1>5, <1>6, <1>7, <1>8 DEF OidcNext

THEOREM OidcInvHolds == OidcSpec => []OidcInv
<1>1. OidcInit => OidcInv
  BY OidcStarts
<1>2. OidcInv /\ [OidcNext]_ssoVars => OidcInv'
  BY OidcStep
<1> QED BY <1>1, <1>2, PTL DEF OidcSpec

\* A logout ends the session it names and its tokens, no late answer of a check
\* gives them back, and a refresh token is presented a second time only when the
\* provider's answer was lost on its way to the database.
THEOREM TokensFollow == OidcSpec => []TokensFollowTheSession
<1>1. OidcInv => TokensFollowTheSession
  <2> SUFFICES ASSUME OidcInv, NEW l \in Logins
               PROVE  /\ loggedOut[l] = "yes" => ~Live(l)
                      /\ sso[l].state = "revoked" => ~sso[l].tokens /\ sso[l].refresh = 0
                      /\ check[l].pc = "refresh" /\ check[l].row.refresh \in spent[l] => lostRefresh[l]
    BY DEF TokensFollowTheSession, LogoutEndsTheSession, RefreshReusedOnlyAfterLoss
  <2>1. LoginOK(signIn[l], sso[l], check[l], idpRefresh[l], spent[l], lostRefresh[l], loggedOut[l])
    BY DEF OidcInv, LoginsInv
  <2> QED BY <2>1 DEF LoginOK, UnderWay, Live
<1> QED BY <1>1, OidcInvHolds, PTL

\* A request that comes to an unchecked session after the provider has closed it,
\* or let the subject go, is let in by no check that it starts or joins.
THEOREM AcceptedFresh == OidcSpec => AcceptedOnFreshWord
<1>1. OidcInv' => \A v \in Visits : visit'[v].pc = "accepted" => ~visit'[v].doomed
  BY DEF OidcInv, VisitsInv, WordOK
<1> QED BY <1>1, OidcInvHolds, PTL DEF AcceptedOnFreshWord

-----------------------------------------------------------------------------
(* The lineage page: its type invariant is also a conjunct of what is         *)
(* inductive.                                                                 *)

PagePlaces ==
    [ mode : {"logical", "versions"}, root : Registered \cup Jobs \cup {Nothing},
      version : DataVersions \cup {Nothing}, depth : Depths, selected : Nodes \cup {Nothing} ]

LoadsOf(What) ==
    [ PageLoads -> [ pc : {"none", "sent", "answered"}, of : What \cup {Nothing},
                     answer : Nat \cup {Nothing}, current : BOOLEAN ] ]

\* What the variables of the page and the Registry are.
ViewTypeOK ==
    /\ edition \in [Registered -> Nat] /\ own \in [Registered -> Nat]
    /\ place \in PagePlaces /\ asked \in PagePlaces \cup {Nothing}
    /\ graph \in [ pc : {"idle", "loading", "data", "error"}, of : PagePlaces \cup {Nothing},
                   nodes : SUBSET Nodes, detailed : SUBSET Nodes ]
    /\ detail \in [node : Nodes \cup {Nothing}, edition : Nat]
    /\ editor \in [of : Nodes \cup {Nothing}, saving : PageSaves \cup {0}]
    /\ graphDue \in BOOLEAN /\ watched \in Nodes \cup {Nothing, Elsewhere}
    /\ graphLoad \in LoadsOf(PagePlaces) /\ detailLoad \in LoadsOf(Nodes)
    /\ save \in [ PageSaves -> [ pc : {"none", "sent", "answered"}, on : Nodes \cup {Nothing},
                                 node : Nodes \cup {Nothing}, from : Nodes \cup {Nothing}, answer : Nat ] ]

\* The form belongs to the dataset the panel shows.
EditorOK == editor # NoEditor => DatasetShown /\ editor.of = detail.node

\* A save goes to the dataset its fields came from, and is answered with an edition
\* the Registry has had; the page never made a later one.
SavesOK ==
    /\ \A s \in PageSaves :
          /\ save[s].on = save[s].from
          /\ save[s].pc # "none" => save[s].on \in Registered /\ save[s].answer <= edition[save[s].on]
    /\ \A d \in Registered : own[d] <= edition[d]

ReadyAt(p) == IF p.mode = "logical" THEN p.root # Nothing ELSE p.version # Nothing

\* The graph is of what its effect last ran with, or on its way to be.
GraphOK ==
    /\ \A l \in PageLoads : graphLoad[l].current =>
          /\ graph.pc = "loading" /\ graphLoad[l].pc = "sent"
          /\ graphLoad[l].of = asked /\ asked \in PagePlaces /\ ReadyAt(asked)
          /\ \A m \in PageLoads : graphLoad[m].current => m = l
    /\ graph.pc = "loading" => \E l \in PageLoads : graphLoad[l].current
    /\ graph.pc = "data" => graph.of = asked
    /\ graph.pc # "data" => graph.detailed = {}
    /\ ~graphDue => (graph.pc = "idle" <=> ~ReadyAt(asked))

\* An edition that is not older than this page made it.
FreshOf(n, e) == n \in Registered /\ e # Failed => e >= own[n]

\* The detail is of what its effect last ran with, or on its way to be; it can only
\* be older than an edit of this page while the graph is asked for again, after
\* which the node is another one.
DetailOK ==
    /\ \A l \in PageLoads : detailLoad[l].current =>
          /\ detailLoad[l].pc # "none" /\ watched \in {Elsewhere, detailLoad[l].of}
          /\ detailLoad[l].pc = "answered" => detailLoad[l].answer \in Nat
    /\ watched \in graph.detailed /\ ~graphDue =>
          /\ \A l \in PageLoads : detailLoad[l].current /\ detailLoad[l].pc = "answered"
                                     => FreshOf(watched, detailLoad[l].answer)
          /\ \/ \E l \in PageLoads : detailLoad[l].current
             \/ detail.node = watched /\ FreshOf(watched, detail.edition)

ViewInv == ViewTypeOK /\ EditorOK /\ SavesOK /\ GraphOK /\ DetailOK

-----------------------------------------------------------------------------
LEMMA ViewNames ==
    /\ Nothing \notin Nodes /\ Elsewhere \notin Nodes /\ Nothing \notin Registered
    /\ Registered \subseteq Nodes /\ Jobs \subseteq Nodes /\ DataVersions \subseteq Nodes
BY LineageViewAssumption DEF Nodes, Elsewhere

LEMMA ShownIs ==
    /\ DatasetShown <=> /\ detail.node \in Registered /\ detail.edition # Failed
                        /\ detail.node = SelectedNode
    /\ DatasetShown => DetailShown = detail
BY ViewNames DEF DatasetShown, DetailShown, NoDetail

\* The form stays with its dataset as long as not both the detail and the
\* selection change.
LEMMA EditorKept ==
    ASSUME EditorOK, EditorStays, UNCHANGED detail \/ SelectedNode' = SelectedNode
    PROVE  EditorOK'
<1>1. DatasetShown' => detail'.node = SelectedNode'
  BY ViewNames DEF DatasetShown, DetailShown, NoDetail
<1> QED
  BY <1>1, ShownIs DEF EditorOK, EditorStays

\* The cleanup of an effect, and the request after it.
LEMMA LoadsForgotten ==
    ASSUME NEW What, NEW loads \in LoadsOf(What)
    PROVE  /\ Forgotten(loads) \in LoadsOf(What)
           /\ \A l \in PageLoads : ~Forgotten(loads)[l].current
<1>1. ASSUME NEW l \in PageLoads
      PROVE  /\ Forgotten(loads)[l] = [loads[l] EXCEPT !.current = FALSE]
             /\ loads[l] \in [ pc : {"none", "sent", "answered"}, of : What \cup {Nothing},
                               answer : Nat \cup {Nothing}, current : BOOLEAN ]
  BY <1>1 DEF Forgotten, LoadsOf
<1> QED
  BY <1>1 DEF Forgotten, LoadsOf

LEMMA LoadSent ==
    ASSUME NEW What, NEW loads \in LoadsOf(What), NEW l \in PageLoads, NEW what \in What
    PROVE  /\ Sent(loads, l, what) \in LoadsOf(What)
           /\ Sent(loads, l, what)[l].current /\ Sent(loads, l, what)[l].pc = "sent"
           /\ Sent(loads, l, what)[l].of = what
           /\ \A m \in PageLoads : Sent(loads, l, what)[m].current => m = l
<1> DEFINE new == [pc |-> "sent", of |-> what, answer |-> Nothing, current |-> TRUE]
<1>1. new \in [ pc : {"none", "sent", "answered"}, of : What \cup {Nothing},
                answer : Nat \cup {Nothing}, current : BOOLEAN ]
  OBVIOUS
<1>2. new.current = TRUE /\ new.pc = "sent" /\ new.of = what
  OBVIOUS
<1>3. Sent(loads, l, what) = [Forgotten(loads) EXCEPT ![l] = new]
  BY DEF Sent
<1>4. /\ Forgotten(loads) \in LoadsOf(What)
      /\ \A m \in PageLoads : ~Forgotten(loads)[m].current
  BY LoadsForgotten
<1> HIDE DEF new
<1>5. Sent(loads, l, what) \in LoadsOf(What)
  BY <1>1, <1>3, <1>4 DEF LoadsOf
<1>6. /\ Sent(loads, l, what)[l] = new
      /\ \A m \in PageLoads : m # l => Sent(loads, l, what)[m] = Forgotten(loads)[m]
  BY <1>3, <1>4 DEF LoadsOf
<1> QED
  BY <1>2, <1>4, <1>5, <1>6

LEMMA FreeIsALoad == ASSUME NEW loads, NEW l \in FreeLoads(loads) PROVE l \in PageLoads
BY DEF FreeLoads

-----------------------------------------------------------------------------
(* Going about.                                                              *)

\* What the user does on the page opens another place.
GoesAbout ==
    \/ \E d \in Registered : OpenRoot(d)
    \/ ApplyRoot
    \/ \E n \in Nodes \cup {Nothing} : SelectNode(n)
    \/ \E v \in DataVersions : OpenVersion(v)
    \/ \E n \in Depths : ChangeDepth(n)
    \/ ChangeMode \/ SelectRoot

OnlyMoves ==
    /\ EditorStays
    /\ UNCHANGED <<edition, graph, detail, graphDue, asked, watched, graphLoad, detailLoad, save, own>>

LEMMA PlacesArePlaces ==
    ASSUME ViewTypeOK, GoesAbout
    PROVE  place' \in PagePlaces /\ OnlyMoves
<1> DEFINE Goal == place' \in PagePlaces /\ OnlyMoves
<1>1. place \in PagePlaces /\ place.version \in DataVersions \cup {Nothing}
  BY DEF ViewTypeOK, PagePlaces
<1>2. /\ \A v \in DataVersions \cup {Nothing} : v \in Nodes \cup {Nothing}
      /\ \A d \in Registered : d \in Registered \cup Jobs \cup {Nothing}
      /\ Nothing \in Nodes \cup {Nothing} /\ "logical" \in {"logical", "versions"}
      /\ "versions" \in {"logical", "versions"} /\ Nothing \in DataVersions \cup {Nothing}
  BY ViewNames
<1> USE DEF Patch, OnlyMoves
<1>3. ASSUME NEW d \in Registered, OpenRoot(d) PROVE Goal
  <2>1. [place EXCEPT !.mode = "logical", !.root = d, !.selected = Nothing] \in PagePlaces
    BY <1>1, <1>2 DEF PagePlaces
  <2> QED
    BY <1>3, <2>1 DEF OpenRoot
<1>4. CASE ApplyRoot
  <2>1. \A n \in Registered \cup Jobs \cup {Nothing} :
           [place EXCEPT !.root = n, !.version = Nothing, !.selected = Nothing] \in PagePlaces
    BY <1>1, <1>2 DEF PagePlaces
  <2>2. \A v \in DataVersions \cup {Nothing} : [place EXCEPT !.version = v, !.selected = Nothing] \in PagePlaces
    BY <1>1, <1>2 DEF PagePlaces
  <2> QED
    BY <1>4, <2>1, <2>2 DEF ApplyRoot
<1>5. ASSUME NEW n \in Nodes \cup {Nothing}, SelectNode(n) PROVE Goal
  <2>1. [place EXCEPT !.selected = n] \in PagePlaces
    BY <1>1 DEF PagePlaces
  <2> QED
    BY <1>5, <2>1 DEF SelectNode
<1>10. \A v \in DataVersions \cup {Nothing} :
          [place EXCEPT !.mode = "versions", !.version = v, !.selected = v] \in PagePlaces
  BY <1>1, <1>2 DEF PagePlaces
<1>6. ASSUME NEW v \in DataVersions, OpenVersion(v) PROVE Goal
  BY <1>6, <1>10 DEF OpenVersion
<1>7. ASSUME NEW n \in Depths, ChangeDepth(n) PROVE Goal
  <2>1. [place EXCEPT !.depth = n] \in PagePlaces
    BY <1>1 DEF PagePlaces
  <2> QED
    BY <1>7, <2>1 DEF ChangeDepth
<1>8. CASE ChangeMode
  <2>1. [place EXCEPT !.mode = "logical", !.selected = Nothing] \in PagePlaces
    BY <1>1, <1>2 DEF PagePlaces
  <2>2. CASE Patch([place EXCEPT !.mode = "logical", !.selected = Nothing])
    BY <2>1, <2>2
  <2>3. CASE \E v \in DataVersions \cup {Nothing} :
                Patch([place EXCEPT !.mode = "versions", !.version = v, !.selected = v])
    BY <1>10, <2>3
  <2> QED
    BY <1>1, <1>8, <2>2, <2>3 DEF ChangeMode
<1>9. CASE SelectRoot
  <2>1. [place EXCEPT !.selected = place.version] \in PagePlaces
    BY <1>1, <1>2 DEF PagePlaces
  <2> QED
    BY <1>9, <2>1 DEF SelectRoot
<1> QED
  BY <1>3, <1>4, <1>5, <1>6, <1>7, <1>8, <1>9 DEF GoesAbout

LEMMA EditorTyped ==
    ASSUME ViewTypeOK, EditorStays
    PROVE  editor' \in [of : Nodes \cup {Nothing}, saving : PageSaves \cup {0}]
BY DEF ViewTypeOK, EditorStays, NoEditor

LEMMA GoingKeeps ==
    ASSUME ViewInv, GoesAbout
    PROVE  ViewInv'
<1>2. /\ place' \in PagePlaces /\ EditorStays
      /\ UNCHANGED <<edition, graph, detail, graphDue, asked, watched, graphLoad, detailLoad, save, own>>
  BY PlacesArePlaces DEF ViewInv, OnlyMoves
<1>3. ViewTypeOK'
  BY <1>2, EditorTyped DEF ViewInv, ViewTypeOK
<1>4. EditorOK'
  BY <1>2, EditorKept DEF ViewInv
<1>5. SavesOK' /\ GraphOK' /\ DetailOK'
  BY <1>2 DEF ViewInv, SavesOK, GraphOK, DetailOK, FreshOf, ReadyAt
<1> QED
  BY <1>3, <1>4, <1>5 DEF ViewInv

-----------------------------------------------------------------------------
(* The effects and the answers.                                              *)

LEMMA GraphRefreshKeeps == ASSUME ViewInv, RefreshGraph PROVE ViewInv'
<1>1. /\ graphDue' = TRUE
      /\ UNCHANGED <<edition, place, graph, detail, editor, asked, watched, graphLoad, detailLoad, save, own>>
  BY DEF RefreshGraph
<1>2. ViewTypeOK' /\ SavesOK' /\ GraphOK' /\ DetailOK'
  BY <1>1 DEF ViewInv, ViewTypeOK, SavesOK, GraphOK, DetailOK
<1>3. EditorOK'
  BY <1>1 DEF ViewInv, EditorOK, DatasetShown, DetailShown, SelectedNode
<1> QED
  BY <1>2, <1>3 DEF ViewInv

LEMMA BarePlace ==
    ASSUME place \in PagePlaces
    PROVE  /\ [place EXCEPT !.selected = Nothing] \in PagePlaces
           /\ Ready <=> ReadyAt([place EXCEPT !.selected = Nothing])
BY DEF PagePlaces, Ready, ReadyAt

LEMMA NoGraphIs ==
    ASSUME NEW pc \in {"idle", "loading", "error"}
    PROVE  /\ NoGraph(pc) \in [ pc : {"idle", "loading", "data", "error"}, of : PagePlaces \cup {Nothing},
                                nodes : SUBSET Nodes, detailed : SUBSET Nodes ]
           /\ NoGraph(pc).pc = pc /\ NoGraph(pc).detailed = {}
BY DEF NoGraph

LEMMA AskGraphKeeps == ASSUME ViewInv, AskGraph PROVE ViewInv'
<1> DEFINE bare == [place EXCEPT !.selected = Nothing]
<1>1. /\ graphDue' = FALSE /\ asked' = bare /\ EditorStays
      /\ UNCHANGED <<edition, place, detail, watched, detailLoad, save, own>>
  BY DEF AskGraph
<1>2. bare \in PagePlaces /\ (Ready <=> ReadyAt(bare))
  BY BarePlace DEF ViewInv, ViewTypeOK
<1> HIDE DEF bare
<1>3. /\ graphLoad \in LoadsOf(PagePlaces)
      /\ editor' \in [of : Nodes \cup {Nothing}, saving : PageSaves \cup {0}]
  BY <1>1, EditorTyped DEF ViewInv, ViewTypeOK
<1>4. EditorOK' /\ SavesOK'
  BY <1>1, EditorKept DEF ViewInv, SavesOK
<1>5. CASE ~Ready /\ graph' = NoGraph("idle") /\ graphLoad' = Forgotten(graphLoad)
  <2>1. ViewTypeOK'
    BY <1>1, <1>2, <1>3, <1>5, NoGraphIs, LoadsForgotten DEF ViewInv, ViewTypeOK
  <2>2. GraphOK'
    BY <1>1, <1>2, <1>3, <1>5, NoGraphIs, LoadsForgotten DEF GraphOK
  <2>3. DetailOK'
    BY <1>1, <1>5, NoGraphIs DEF ViewInv, DetailOK
  <2> QED
    BY <1>4, <2>1, <2>2, <2>3 DEF ViewInv
<1>6. ASSUME NEW l \in FreeLoads(graphLoad), Ready, graph' = NoGraph("loading"),
             graphLoad' = Sent(graphLoad, l, asked')
      PROVE  ViewInv'
  <2>0. l \in PageLoads
    BY FreeIsALoad
  <2>1. /\ graphLoad' \in LoadsOf(PagePlaces) /\ graphLoad'[l].current
        /\ \A m \in PageLoads : graphLoad'[m].current =>
              m = l /\ graphLoad'[m].pc = "sent" /\ graphLoad'[m].of = asked'
    BY <1>1, <1>2, <1>3, <1>6, <2>0, LoadSent
  <2>2. ViewTypeOK'
    BY <1>1, <1>2, <1>3, <1>6, <2>1, NoGraphIs DEF ViewInv, ViewTypeOK
  <2>3. GraphOK'
    BY <1>1, <1>2, <1>6, <2>0, <2>1, NoGraphIs DEF GraphOK
  <2>4. DetailOK'
    BY <1>1, <1>6, NoGraphIs DEF ViewInv, DetailOK
  <2> QED
    BY <1>4, <2>2, <2>3, <2>4 DEF ViewInv
<1> QED
  BY <1>5, <1>6 DEF AskGraph

LEMMA AskDetailKeeps == ASSUME ViewInv, AskDetail PROVE ViewInv'
<1>1. /\ watched' = SelectedNode
      /\ UNCHANGED <<edition, place, graph, detail, editor, graphDue, asked, graphLoad, save, own>>
  BY DEF AskDetail
<1>2. SelectedNode \in Nodes \cup {Nothing} /\ detailLoad \in LoadsOf(Nodes)
  BY DEF ViewInv, ViewTypeOK, SelectedNode, PagePlaces
<1>3. EditorOK' /\ SavesOK' /\ GraphOK'
  BY <1>1 DEF ViewInv, EditorOK, DatasetShown, DetailShown, SelectedNode, SavesOK, GraphOK, ReadyAt
<1>4. CASE SelectedNode \notin graph.detailed /\ detailLoad' = Forgotten(detailLoad)
  <2>1. ViewTypeOK'
    BY <1>1, <1>2, <1>4, LoadsForgotten DEF ViewInv, ViewTypeOK
  <2>2. DetailOK'
    BY <1>1, <1>2, <1>4, LoadsForgotten DEF DetailOK
  <2> QED
    BY <1>3, <2>1, <2>2 DEF ViewInv
<1>5. ASSUME SelectedNode \in graph.detailed, NEW l \in FreeLoads(detailLoad),
             detailLoad' = Sent(detailLoad, l, SelectedNode)
      PROVE  ViewInv'
  <2>0. l \in PageLoads /\ SelectedNode \in Nodes
    BY <1>5, FreeIsALoad DEF ViewInv, ViewTypeOK
  <2>1. /\ detailLoad' \in LoadsOf(Nodes) /\ detailLoad'[l].current
        /\ \A m \in PageLoads : detailLoad'[m].current =>
              detailLoad'[m].pc = "sent" /\ detailLoad'[m].of = SelectedNode
    BY <1>2, <1>5, <2>0, LoadSent
  <2>2. ViewTypeOK'
    BY <1>1, <1>2, <2>1 DEF ViewInv, ViewTypeOK
  <2>3. DetailOK'
    BY <1>1, <2>0, <2>1 DEF DetailOK
  <2> QED
    BY <1>3, <2>2, <2>3 DEF ViewInv
<1> QED
  BY <1>4, <1>5 DEF AskDetail

LEMMA AnswerDetailKeeps ==
    ASSUME ViewInv, NEW l \in PageLoads, AnswerDetail(l)
    PROVE  ViewInv'
<1> DEFINE n == detailLoad[l].of
           LoadSet == [ pc : {"none", "sent", "answered"}, of : Nodes \cup {Nothing},
                        answer : Nat \cup {Nothing}, current : BOOLEAN ]
<1>1. /\ detailLoad[l].pc = "sent"
      /\ UNCHANGED <<edition, place, graph, detail, editor, graphDue, asked, watched, graphLoad, save, own>>
  BY DEF AnswerDetail
<1>2. PICK e \in {Failed, IF n \in Registered THEN edition[n] ELSE 1} :
         detailLoad' = [detailLoad EXCEPT ![l].pc = "answered", ![l].answer = e]
  BY DEF AnswerDetail
<1>3. e \in Nat /\ FreshOf(n, e)
  BY DEF ViewInv, ViewTypeOK, SavesOK, FreshOf, Failed
<1>4. detailLoad \in [PageLoads -> LoadSet] /\ detailLoad[l] \in LoadSet
  BY DEF ViewInv, ViewTypeOK, LoadsOf
<1> DEFINE new == [detailLoad[l] EXCEPT !.pc = "answered", !.answer = e]
<1>5. /\ new \in LoadSet /\ new.pc = "answered" /\ new.answer = e /\ new.of = n
      /\ new.current <=> detailLoad[l].current
  BY <1>3, <1>4
<1>6. detailLoad' = [detailLoad EXCEPT ![l] = new]
  BY <1>2, <1>4
<1> HIDE DEF new
<1>7. detailLoad' \in [PageLoads -> LoadSet]
  BY <1>4, <1>5, <1>6
<1>8. detailLoad'[l] = new /\ \A m \in PageLoads : m # l => detailLoad'[m] = detailLoad[m]
  BY <1>4, <1>6
<1>9. ViewTypeOK'
  BY <1>1, <1>7 DEF ViewInv, ViewTypeOK, LoadsOf
<1>10. EditorOK' /\ SavesOK' /\ GraphOK'
  BY <1>1 DEF ViewInv, EditorOK, DatasetShown, DetailShown, SelectedNode, SavesOK, GraphOK, ReadyAt
<1>11. DetailOK'
  <2>1. Elsewhere \notin graph.detailed
    BY ViewNames DEF ViewInv, ViewTypeOK
  <2>2. DetailOK
    BY DEF ViewInv
  <2>3. ASSUME NEW m \in PageLoads, detailLoad'[m].current
        PROVE  /\ detailLoad[m].current
               /\ detailLoad'[m].pc # "none" /\ watched' \in {Elsewhere, detailLoad'[m].of}
               /\ detailLoad'[m].pc = "answered" => detailLoad'[m].answer \in Nat
    BY <1>1, <1>3, <1>5, <1>8, <2>2, <2>3 DEF DetailOK
  <2>4. ASSUME watched \in graph.detailed, ~graphDue
        PROVE  /\ \A m \in PageLoads : detailLoad'[m].current /\ detailLoad'[m].pc = "answered"
                     => FreshOf(watched, detailLoad'[m].answer)
               /\ \/ \E m \in PageLoads : detailLoad'[m].current
                  \/ detail.node = watched /\ FreshOf(watched, detail.edition)
    <3>1. ASSUME NEW m \in PageLoads, detailLoad'[m].current, detailLoad'[m].pc = "answered"
          PROVE  FreshOf(watched, detailLoad'[m].answer)
      <4>1. CASE m = l
        <5>1. watched = n
          BY <1>5, <1>8, <2>1, <2>2, <2>4, <3>1, <4>1 DEF DetailOK
        <5> QED
          BY <1>3, <1>5, <1>8, <4>1, <5>1
      <4>2. CASE m # l
        BY <1>8, <2>2, <2>4, <3>1, <4>2 DEF DetailOK
      <4> QED
        BY <4>1, <4>2
    <3>2. \A m \in PageLoads : detailLoad'[m].current <=> detailLoad[m].current
      BY <1>5, <1>8
    <3> QED
      BY <2>2, <2>4, <3>1, <3>2 DEF DetailOK
  <2> QED
    BY <1>1, <2>3, <2>4 DEF DetailOK, FreshOf
<1> QED
  BY <1>9, <1>10, <1>11 DEF ViewInv

\* A graph holds nodes, and details of nodes.
LEMMA AnswersAreNodes ==
    ASSUME NEW ask \in PagePlaces, NEW g \in AnswersOf(ask), g # Nothing,
           ask.mode = "logical" => ask.root \in Nodes
    PROVE  g.nodes \in SUBSET Nodes /\ g.detailed \in SUBSET Nodes
<1>1. CASE ask.mode = "logical"
  <2>1. CASE g \in LogicalGraphs(ask.root)
    BY <2>1, ViewNames DEF LogicalGraphs, Graphs, KnownOf
  <2>2. CASE g \in {Graphs({ask.root}, KnownOf({ask.root})), Graphs({ask.root}, {})}
    BY <1>1, <2>2, ViewNames DEF Graphs, KnownOf
  <2> QED
    BY <1>1, <2>1, <2>2 DEF AnswersOf, AnsweredLogical
<1>2. CASE ask.mode # "logical"
  BY <1>2, ViewNames DEF AnswersOf, AnsweredVersions, Graphs
<1> QED
  BY <1>1, <1>2

Rested(loads, l) == [loads EXCEPT ![l] = NoPageLoad]

LEMMA LoadTaken ==
    ASSUME NEW What, NEW loads \in LoadsOf(What), NEW l \in PageLoads
    PROVE  /\ Rested(loads, l) \in LoadsOf(What)
           /\ \A m \in PageLoads : Rested(loads, l)[m].current => m # l /\ Rested(loads, l)[m] = loads[m]
           /\ \A m \in PageLoads : m # l => Rested(loads, l)[m] = loads[m]
<1>1. NoPageLoad \in [ pc : {"none", "sent", "answered"}, of : What \cup {Nothing},
                       answer : Nat \cup {Nothing}, current : BOOLEAN ]
  BY DEF NoPageLoad
<1>2. NoPageLoad.current = FALSE
  BY DEF NoPageLoad
<1>3. \A m \in PageLoads : Rested(loads, l)[m] = IF m = l THEN NoPageLoad ELSE loads[m]
  BY DEF LoadsOf, Rested
<1>4. Rested(loads, l) \in LoadsOf(What)
  BY <1>1 DEF LoadsOf, Rested
<1> QED
  BY <1>2, <1>3, <1>4

LEMMA TakeGraphKeeps ==
    ASSUME ViewInv, NEW l \in PageLoads, TakeGraph(l)
    PROVE  ViewInv'
<1>1. /\ graphLoad' = [graphLoad EXCEPT ![l] = NoPageLoad] /\ EditorStays
      /\ UNCHANGED <<edition, place, detail, graphDue, asked, detailLoad, save, own>>
  BY DEF TakeGraph
<1>2. /\ graphLoad' \in LoadsOf(PagePlaces)
      /\ \A m \in PageLoads : graphLoad'[m].current => m # l /\ graphLoad'[m] = graphLoad[m]
      /\ \A m \in PageLoads : m # l => graphLoad'[m] = graphLoad[m]
  <2>1. graphLoad \in LoadsOf(PagePlaces)
    BY DEF ViewInv, ViewTypeOK
  <2>2. graphLoad' = Rested(graphLoad, l)
    BY <1>1 DEF Rested
  <2> QED
    BY <2>1, <2>2, LoadTaken
<1>3. editor' \in [of : Nodes \cup {Nothing}, saving : PageSaves \cup {0}]
  BY <1>1, EditorTyped DEF ViewInv
<1>4. EditorOK' /\ SavesOK'
  BY <1>1, EditorKept DEF ViewInv, SavesOK
<1>5. CASE ~graphLoad[l].current /\ UNCHANGED <<graph, watched>>
  <2>1. ViewTypeOK'
    BY <1>1, <1>2, <1>3, <1>5 DEF ViewInv, ViewTypeOK
  <2>2. GraphOK'
    BY <1>1, <1>2, <1>5 DEF ViewInv, GraphOK
  <2>3. DetailOK'
    BY <1>1, <1>5 DEF ViewInv, DetailOK, FreshOf
  <2> QED
    BY <1>4, <2>1, <2>2, <2>3 DEF ViewInv
<1>6. ASSUME graphLoad[l].current, NEW g \in AnswersOf(graphLoad[l].of),
             graph' = IF g = Nothing THEN NoGraph("error")
                      ELSE [pc |-> "data", of |-> graphLoad[l].of, nodes |-> g.nodes, detailed |-> g.detailed],
             watched' = IF watched = Nothing THEN Nothing ELSE Elsewhere
      PROVE  ViewInv'
  <2>1. /\ graphLoad[l].of = asked /\ asked \in PagePlaces /\ ReadyAt(asked) /\ graph.pc = "loading"
        /\ \A m \in PageLoads : ~graphLoad'[m].current
    BY <1>2, <1>6 DEF ViewInv, GraphOK
  <2>2. asked.mode = "logical" => asked.root \in Nodes
    BY <2>1, ViewNames DEF PagePlaces, ReadyAt
  <2>3. /\ graph' \in [ pc : {"idle", "loading", "data", "error"}, of : PagePlaces \cup {Nothing},
                        nodes : SUBSET Nodes, detailed : SUBSET Nodes ]
        /\ graph'.pc = "data" => graph'.of = asked
        /\ graph'.pc \in {"data", "error"} /\ (graph'.pc = "error" => graph'.detailed = {})
    <3>1. CASE g = Nothing
      BY <1>6, <3>1, NoGraphIs
    <3>2. CASE g # Nothing
      <4>1. g.nodes \in SUBSET Nodes /\ g.detailed \in SUBSET Nodes
        BY <1>6, <2>1, <2>2, <3>2, AnswersAreNodes
      <4> QED
        BY <1>6, <2>1, <3>2, <4>1
    <3> QED
      BY <3>1, <3>2
  <2>4. ViewTypeOK'
    BY <1>1, <1>2, <1>3, <1>6, <2>3 DEF ViewInv, ViewTypeOK
  <2>5. GraphOK'
    BY <1>1, <2>1, <2>3 DEF ViewInv, GraphOK
  <2>6. DetailOK'
    <3>1. watched' \notin graph'.detailed
      BY <1>6, <2>3, ViewNames
    <3>2. \A m \in PageLoads : detailLoad[m].current => watched' \in {Elsewhere, detailLoad[m].of}
      BY <1>6 DEF ViewInv, DetailOK
    <3> QED
      BY <1>1, <3>1, <3>2 DEF ViewInv, DetailOK
  <2> QED
    BY <1>4, <2>4, <2>5, <2>6 DEF ViewInv
<1> QED
  BY <1>5, <1>6 DEF TakeGraph

LEMMA TakeDetailKeeps ==
    ASSUME ViewInv, NEW l \in PageLoads, TakeDetail(l)
    PROVE  ViewInv'
<1>1. /\ detailLoad[l].pc = "answered" /\ detailLoad' = [detailLoad EXCEPT ![l] = NoPageLoad]
      /\ EditorStays
      /\ UNCHANGED <<edition, place, graph, graphDue, asked, watched, graphLoad, save, own>>
  BY DEF TakeDetail
<1>2. /\ detailLoad' \in LoadsOf(Nodes)
      /\ \A m \in PageLoads : detailLoad'[m].current => m # l /\ detailLoad'[m] = detailLoad[m]
      /\ \A m \in PageLoads : m # l => detailLoad'[m] = detailLoad[m]
  <2>1. detailLoad \in LoadsOf(Nodes)
    BY DEF ViewInv, ViewTypeOK
  <2>2. detailLoad' = Rested(detailLoad, l)
    BY <1>1 DEF Rested
  <2> QED
    BY <2>1, <2>2, LoadTaken
<1>3. editor' \in [of : Nodes \cup {Nothing}, saving : PageSaves \cup {0}]
  BY <1>1, EditorTyped DEF ViewInv
<1>4. EditorOK' /\ SavesOK' /\ GraphOK'
  <2>1. SelectedNode' = SelectedNode
    BY <1>1 DEF SelectedNode
  <2> QED
    BY <1>1, <2>1, EditorKept DEF ViewInv, SavesOK, GraphOK, ReadyAt
<1>5. DetailOK /\ Elsewhere \notin graph.detailed
  BY ViewNames DEF ViewInv, ViewTypeOK
<1>6. CASE ~detailLoad[l].current
  <2>1. detail' = detail
    BY <1>6 DEF TakeDetail
  <2>2. ViewTypeOK'
    BY <1>1, <1>2, <1>3, <2>1 DEF ViewInv, ViewTypeOK
  <2>3. DetailOK'
    BY <1>1, <1>2, <1>5, <1>6, <2>1 DEF DetailOK, FreshOf
  <2> QED
    BY <1>4, <2>2, <2>3 DEF ViewInv
<1>7. CASE detailLoad[l].current
  <2>1. detail' = [node |-> detailLoad[l].of, edition |-> detailLoad[l].answer]
    BY <1>7 DEF TakeDetail
  <2>2. detail'.node = detailLoad[l].of /\ detail'.edition = detailLoad[l].answer
    BY <2>1
  <2>3. detail' \in [node : Nodes \cup {Nothing}, edition : Nat]
    <3>1. detailLoad[l].of \in Nodes \cup {Nothing}
      BY DEF ViewInv, ViewTypeOK, LoadsOf
    <3> QED
      BY <1>1, <1>5, <1>7, <2>1, <3>1 DEF DetailOK
  <2>4. ViewTypeOK'
    BY <1>1, <1>2, <1>3, <2>3 DEF ViewInv, ViewTypeOK
  <2>5. ASSUME watched \in graph.detailed, ~graphDue
        PROVE  detail'.node = watched /\ FreshOf(watched, detail'.edition)
    BY <1>1, <1>5, <1>7, <2>2, <2>5 DEF DetailOK
  <2>6. DetailOK'
    BY <1>1, <1>2, <1>5, <2>5 DEF DetailOK, FreshOf
  <2> QED
    BY <1>4, <2>4, <2>6 DEF ViewInv
<1> QED
  BY <1>6, <1>7

-----------------------------------------------------------------------------
(* The form of a dataset.                                                    *)

LEMMA FormKeeps == ASSUME ViewInv, Edit \/ CancelEdit PROVE ViewInv'
<1>1. UNCHANGED <<edition, place, graph, detail, graphDue, asked, watched, graphLoad, detailLoad, save, own>>
  BY DEF Edit, CancelEdit
<1>2. SavesOK' /\ GraphOK' /\ DetailOK'
  BY <1>1 DEF ViewInv, SavesOK, GraphOK, DetailOK, FreshOf, ReadyAt
<1>3. DatasetShown' <=> DatasetShown
  BY <1>1 DEF DatasetShown, DetailShown, SelectedNode
<1>4. CASE CancelEdit
  BY <1>1, <1>2, <1>4 DEF CancelEdit, ViewInv, ViewTypeOK, EditorOK, NoEditor
<1>5. CASE Edit
  <2>1. /\ DatasetShown /\ editor' = [of |-> detail.node, saving |-> 0]
    BY <1>5, ShownIs DEF Edit
  <2>2. editor'.of = detail.node /\ editor' \in [of : Nodes \cup {Nothing}, saving : PageSaves \cup {0}]
    BY <2>1 DEF ViewInv, ViewTypeOK
  <2> QED
    BY <1>1, <1>2, <1>3, <2>1, <2>2 DEF ViewInv, ViewTypeOK, EditorOK
<1> QED
  BY <1>4, <1>5

LEMMA SubmitKeeps ==
    ASSUME ViewInv, NEW s \in PageSaves, Submit(s)
    PROVE  ViewInv'
<1> DEFINE SaveSet == [ pc : {"none", "sent", "answered"}, on : Nodes \cup {Nothing},
                        node : Nodes \cup {Nothing}, from : Nodes \cup {Nothing}, answer : Nat ]
           new == [pc |-> "sent", on |-> DetailShown.node, node |-> SelectedNode,
                   from |-> editor.of, answer |-> 0]
<1>1. /\ editor # NoEditor /\ editor' = [editor EXCEPT !.saving = s]
      /\ save' = [save EXCEPT ![s] = new]
      /\ UNCHANGED <<edition, place, graph, detail, graphDue, asked, watched, graphLoad, detailLoad, own>>
  BY DEF Submit
<1>2. /\ DatasetShown /\ editor.of = detail.node /\ DetailShown = detail
      /\ detail.node \in Registered /\ SelectedNode = detail.node
  BY <1>1, ShownIs DEF ViewInv, EditorOK
<1>3. /\ new \in SaveSet /\ new.on = new.from /\ new.on \in Registered /\ new.answer = 0
  BY <1>2, ViewNames
<1>4. save \in [PageSaves -> SaveSet] /\ edition \in [Registered -> Nat]
  BY DEF ViewInv, ViewTypeOK
<1> HIDE DEF new
<1>5. save' \in [PageSaves -> SaveSet]
  BY <1>1, <1>3, <1>4
<1>6. /\ editor' \in [of : Nodes \cup {Nothing}, saving : PageSaves \cup {0}]
      /\ editor'.of = editor.of
  BY <1>1 DEF ViewInv, ViewTypeOK
<1>7. ViewTypeOK'
  BY <1>1, <1>5, <1>6 DEF ViewInv, ViewTypeOK
<1>8. EditorOK'
  BY <1>1, <1>2, <1>6 DEF EditorOK, DatasetShown, DetailShown, SelectedNode
<1>9. SavesOK'
  <2>1. ASSUME NEW t \in PageSaves
        PROVE  /\ save'[t].on = save'[t].from
               /\ save'[t].pc # "none" => save'[t].on \in Registered /\ save'[t].answer <= edition[save'[t].on]
    <3>1. CASE t = s
      BY <1>1, <1>3, <1>4, <3>1
    <3>2. CASE t # s
      BY <1>1, <1>4, <3>2 DEF ViewInv, SavesOK
    <3> QED
      BY <3>1, <3>2
  <2> QED
    BY <1>1, <2>1 DEF ViewInv, SavesOK
<1>10. GraphOK' /\ DetailOK'
  BY <1>1 DEF ViewInv, GraphOK, DetailOK, FreshOf, ReadyAt
<1> QED
  BY <1>7, <1>8, <1>9, <1>10 DEF ViewInv

\* An edition is made, by this page or by somebody else.
LEMMA EditionsGrow ==
    ASSUME ViewInv, NEW d \in Registered, edition' = [edition EXCEPT ![d] = @ + 1]
    PROVE  /\ edition' \in [Registered -> Nat] /\ edition'[d] = edition[d] + 1
           /\ \A e \in Registered : edition[e] <= edition'[e]
<1>1. edition \in [Registered -> Nat]
  BY DEF ViewInv, ViewTypeOK
<1> QED
  BY <1>1

LEMMA OtherEditsKeep ==
    ASSUME ViewInv, NEW d \in Registered, OtherEdits(d)
    PROVE  ViewInv'
<1>1. /\ edition' = [edition EXCEPT ![d] = @ + 1]
      /\ UNCHANGED <<place, graph, detail, editor, graphDue, asked, watched, graphLoad, detailLoad, save, own>>
  BY DEF OtherEdits
<1>2. /\ edition' \in [Registered -> Nat] /\ edition \in [Registered -> Nat] /\ own \in [Registered -> Nat]
      /\ \A e \in Registered : edition[e] <= edition'[e]
  BY <1>1, EditionsGrow DEF ViewInv, ViewTypeOK
<1>3. ViewTypeOK' /\ EditorOK' /\ GraphOK' /\ DetailOK'
  BY <1>1, <1>2 DEF ViewInv, ViewTypeOK, EditorOK, DatasetShown, DetailShown, SelectedNode,
                    GraphOK, DetailOK, FreshOf, ReadyAt
<1>4. \A s \in PageSaves : save[s].answer \in Nat
  BY DEF ViewInv, ViewTypeOK
<1>5. SavesOK'
  BY <1>1, <1>2, <1>4 DEF ViewInv, SavesOK
<1> QED
  BY <1>3, <1>5 DEF ViewInv

LEMMA CurateKeeps ==
    ASSUME ViewInv, NEW s \in PageSaves, Curate(s)
    PROVE  ViewInv'
<1> DEFINE d == save[s].on
           SaveSet == [ pc : {"none", "sent", "answered"}, on : Nodes \cup {Nothing},
                        node : Nodes \cup {Nothing}, from : Nodes \cup {Nothing}, answer : Nat ]
<1>1. /\ save[s].pc = "sent"
      /\ UNCHANGED <<place, graph, detail, editor, graphDue, asked, watched, graphLoad, detailLoad, own>>
  BY DEF Curate
<1>2. /\ d \in Registered /\ save[s].answer <= edition[d] /\ save[s].on = save[s].from
      /\ save \in [PageSaves -> SaveSet] /\ save[s] \in SaveSet /\ edition \in [Registered -> Nat]
      /\ own \in [Registered -> Nat]
  BY <1>1 DEF ViewInv, SavesOK, ViewTypeOK
<1>3. /\ edition' \in [Registered -> Nat] /\ \A e \in Registered : edition[e] <= edition'[e]
      /\ edition' = [edition EXCEPT ![d] = @ + 1] => edition'[d] = edition[d] + 1
  <2>1. CASE edition' = [edition EXCEPT ![d] = @ + 1]
    BY <1>2, <2>1, EditionsGrow
  <2>2. CASE UNCHANGED edition
    BY <1>2, <2>2
  <2> QED
    BY <2>1, <2>2 DEF Curate
<1>4. PICK new \in SaveSet :
         /\ save' = [save EXCEPT ![s] = new]
         /\ new.on = d /\ new.from = save[s].from /\ new.answer <= edition'[d]
  <2>1. ASSUME NEW a \in Nat, save' = [save EXCEPT ![s].pc = "answered", ![s].answer = a], a <= edition'[d]
        PROVE  \E new \in SaveSet :
                  /\ save' = [save EXCEPT ![s] = new]
                  /\ new.on = d /\ new.from = save[s].from /\ new.answer <= edition'[d]
    <3> DEFINE new == [save[s] EXCEPT !.pc = "answered", !.answer = a]
    <3>1. new \in SaveSet /\ new.on = d /\ new.from = save[s].from /\ new.answer = a
      BY <1>2
    <3>2. save' = [save EXCEPT ![s] = new]
      BY <1>2, <2>1
    <3> HIDE DEF new
    <3> QED
      BY <2>1, <3>1, <3>2
  <2>2. CASE save' = [save EXCEPT ![s].pc = "answered"]
    <3> DEFINE new == [save[s] EXCEPT !.pc = "answered"]
    <3>1. new \in SaveSet /\ new.on = d /\ new.from = save[s].from /\ new.answer = save[s].answer
      BY <1>2
    <3>2. save' = [save EXCEPT ![s] = new]
      BY <1>2, <2>2
    <3>3. new.answer <= edition'[d]
      <4>1. edition[d] <= edition'[d] /\ edition'[d] \in Nat /\ edition[d] \in Nat /\ save[s].answer \in Nat
        BY <1>2, <1>3
      <4> HIDE DEF new, d
      <4> QED
        BY <1>2, <3>1, <4>1
    <3> HIDE DEF new
    <3> QED
      BY <3>1, <3>2, <3>3
  <2>3. CASE /\ edition' = [edition EXCEPT ![d] = @ + 1]
             /\ \E a \in {edition'[d], Failed} :
                   save' = [save EXCEPT ![s].pc = "answered", ![s].answer = a]
    <3>1. PICK a \in {edition'[d], Failed} : save' = [save EXCEPT ![s].pc = "answered", ![s].answer = a]
      BY <2>3
    <3>2. edition'[d] \in Nat
      BY <1>2, <1>3
    <3>3. a \in Nat /\ a <= edition'[d]
      BY <3>2 DEF Failed
    <3> QED
      BY <2>1, <3>1, <3>3
  <2> QED
    BY <2>2, <2>3 DEF Curate
<1>6. ViewTypeOK'
  <2>1. save' \in [PageSaves -> SaveSet]
    BY <1>2, <1>4
  <2> QED
    BY <1>1, <1>3, <2>1 DEF ViewInv, ViewTypeOK
<1>7. EditorOK' /\ GraphOK' /\ DetailOK'
  BY <1>1 DEF ViewInv, EditorOK, DatasetShown, DetailShown, SelectedNode,
              GraphOK, DetailOK, FreshOf, ReadyAt
<1>8. SavesOK'
  <2>1. ASSUME NEW t \in PageSaves
        PROVE  /\ save'[t].on = save'[t].from
               /\ save'[t].pc # "none" => save'[t].on \in Registered /\ save'[t].answer <= edition'[save'[t].on]
    <3>1. CASE t = s
      BY <1>2, <1>3, <1>4, <3>1
    <3>2. CASE t # s
      <4>1. save'[t] = save[t] /\ save[t].answer \in Nat
        BY <1>2, <1>4, <3>2
      <4>2. save[t].pc # "none" => save[t].on \in Registered /\ save[t].answer <= edition[save[t].on]
        BY DEF ViewInv, SavesOK
      <4> QED
        BY <1>2, <1>3, <4>1, <4>2 DEF ViewInv, SavesOK
    <3> QED
      BY <3>1, <3>2
  <2>2. \A e \in Registered : own[e] <= edition'[e]
    BY <1>2, <1>3 DEF ViewInv, SavesOK
  <2> QED
    BY <1>1, <2>1, <2>2 DEF SavesOK
<1> QED
  BY <1>6, <1>7, <1>8 DEF ViewInv

LEMMA EditSavedKeeps ==
    ASSUME ViewInv, NEW s \in PageSaves, EditSaved(s)
    PROVE  ViewInv'
<1> DEFINE SaveSet == [ pc : {"none", "sent", "answered"}, on : Nodes \cup {Nothing},
                        node : Nodes \cup {Nothing}, from : Nodes \cup {Nothing}, answer : Nat ]
           d == save[s].on
<1>1. /\ save[s].pc = "answered" /\ save' = [save EXCEPT ![s] = NoSave]
      /\ UNCHANGED <<edition, place, graph, asked, watched, graphLoad, detailLoad>>
  BY DEF EditSaved
<1>2. /\ save \in [PageSaves -> SaveSet] /\ save[s] \in SaveSet
      /\ edition \in [Registered -> Nat] /\ own \in [Registered -> Nat]
      /\ d \in Registered /\ save[s].answer <= edition[d]
  BY <1>1 DEF ViewInv, ViewTypeOK, SavesOK
<1>3. NoSave \in SaveSet /\ NoSave.on = NoSave.from /\ NoSave.pc = "none"
  BY DEF NoSave
<1>4. save' \in [PageSaves -> SaveSet]
  BY <1>1, <1>2, <1>3
<1>5. \A t \in PageSaves :
         /\ save'[t].on = save'[t].from
         /\ save'[t].pc # "none" => save'[t].on \in Registered /\ save'[t].answer <= edition[save'[t].on]
  <2>1. \A t \in PageSaves : save'[t] = IF t = s THEN NoSave ELSE save[t]
    BY <1>1, <1>2
  <2> QED
    BY <1>3, <2>1 DEF ViewInv, SavesOK
<1>6. SelectedNode' = SelectedNode
  BY <1>1 DEF SelectedNode
<1>7. CASE /\ editor' = IF editor.saving = s THEN [editor EXCEPT !.saving = 0] ELSE editor
           /\ UNCHANGED <<detail, graphDue, own>>
  <2>1. /\ editor' \in [of : Nodes \cup {Nothing}, saving : PageSaves \cup {0}]
        /\ editor'.of = editor.of /\ (editor = NoEditor => editor' = NoEditor)
    BY <1>7 DEF ViewInv, ViewTypeOK, NoEditor
  <2>2. ViewTypeOK'
    BY <1>1, <1>4, <1>7, <2>1 DEF ViewInv, ViewTypeOK
  <2>3. EditorOK'
    BY <1>1, <1>7, <2>1 DEF ViewInv, EditorOK, DatasetShown, DetailShown, SelectedNode
  <2>4. SavesOK' /\ GraphOK' /\ DetailOK'
    BY <1>1, <1>5, <1>7 DEF ViewInv, SavesOK, GraphOK, DetailOK, FreshOf, ReadyAt
  <2> QED
    BY <2>2, <2>3, <2>4 DEF ViewInv
<1>8. CASE /\ detail' = [node |-> save[s].node, edition |-> save[s].answer]
           /\ graphDue' = TRUE
           /\ own' = [own EXCEPT ![d] = IF @ > save[s].answer THEN @ ELSE save[s].answer]
           /\ editor' = IF DatasetShown' /\ editor.saving # s THEN editor ELSE NoEditor
  <2>1. detail' \in [node : Nodes \cup {Nothing}, edition : Nat]
    BY <1>2, <1>8
  <2>2. own' \in [Registered -> Nat] /\ \A e \in Registered : own'[e] <= edition[e]
    <3>1. /\ save[s].answer \in Nat /\ own[d] \in Nat /\ edition[d] \in Nat
          /\ \A e \in Registered : own[e] <= edition[e]
      BY <1>2 DEF ViewInv, SavesOK
    <3> DEFINE last == IF own[d] > save[s].answer THEN own[d] ELSE save[s].answer
    <3>2. last \in Nat /\ last <= edition[d]
      BY <1>2, <3>1
    <3>3. own' = [own EXCEPT ![d] = last]
      BY <1>8
    <3> HIDE DEF last
    <3> QED
      BY <1>2, <3>1, <3>2, <3>3
  <2>3. editor' \in [of : Nodes \cup {Nothing}, saving : PageSaves \cup {0}]
    BY <1>8 DEF ViewInv, ViewTypeOK, NoEditor
  <2>4. ViewTypeOK'
    BY <1>1, <1>4, <1>8, <2>1, <2>2, <2>3 DEF ViewInv, ViewTypeOK
  <2>5. EditorOK'
    <3>1. DatasetShown' => detail'.node = SelectedNode'
      BY ViewNames DEF DatasetShown, DetailShown, NoDetail
    <3> QED
      BY <1>6, <1>8, <3>1, ShownIs DEF ViewInv, EditorOK
  <2>6. SavesOK' /\ GraphOK' /\ DetailOK'
    BY <1>1, <1>5, <1>8, <2>2 DEF ViewInv, SavesOK, GraphOK, DetailOK
  <2> QED
    BY <2>4, <2>5, <2>6 DEF ViewInv
<1> QED
  BY <1>7, <1>8 DEF EditSaved

-----------------------------------------------------------------------------
LEMMA ViewInitially == ViewInit => ViewInv
<1> SUFFICES ASSUME ViewInit PROVE ViewInv
  OBVIOUS
<1>1. (CHOOSE n \in Depths : TRUE) \in Depths
  BY LineageViewAssumption
<1>2. /\ place \in PagePlaces /\ asked = Nothing /\ watched = Nothing /\ graphDue = TRUE
      /\ edition \in [Registered -> Nat] /\ own = [d \in Registered |-> 0]
  BY <1>1, ViewNames DEF ViewInit, PagePlaces
<1>3. /\ graph = NoGraph("idle") /\ detail = NoDetail /\ editor = NoEditor
      /\ graphLoad = [l \in PageLoads |-> NoPageLoad] /\ detailLoad = [l \in PageLoads |-> NoPageLoad]
      /\ save = [s \in PageSaves |-> NoSave]
  BY DEF ViewInit
<1>4. /\ NoPageLoad.current = FALSE
      /\ \A What : NoPageLoad \in [ pc : {"none", "sent", "answered"}, of : What \cup {Nothing},
                                     answer : Nat \cup {Nothing}, current : BOOLEAN ]
  BY DEF NoPageLoad
<1>5. graphLoad \in LoadsOf(PagePlaces) /\ detailLoad \in LoadsOf(Nodes)
  BY <1>3, <1>4 DEF LoadsOf
<1>6. save \in [ PageSaves -> [ pc : {"none", "sent", "answered"}, on : Nodes \cup {Nothing},
                                node : Nodes \cup {Nothing}, from : Nodes \cup {Nothing}, answer : Nat ] ]
  BY <1>3 DEF NoSave
<1>7. ViewTypeOK
  BY <1>2, <1>3, <1>5, <1>6, NoGraphIs DEF ViewTypeOK, NoDetail, NoEditor
<1>8. EditorOK /\ SavesOK
  BY <1>2, <1>3 DEF EditorOK, SavesOK, NoSave
<1>9. \A l \in PageLoads : ~graphLoad[l].current /\ ~detailLoad[l].current
  BY <1>3, <1>4
<1>10. GraphOK /\ DetailOK
  BY <1>2, <1>3, <1>9, NoGraphIs DEF GraphOK, DetailOK
<1> QED
  BY <1>7, <1>8, <1>10 DEF ViewInv

LEMMA ViewKeeps == ViewInv /\ [ViewNext]_viewVars => ViewInv'
<1> SUFFICES ASSUME ViewInv, [ViewNext]_viewVars PROVE ViewInv'
  OBVIOUS
<1>1. CASE GoesAbout
  BY <1>1, GoingKeeps
<1>2. CASE RefreshGraph
  BY <1>2, GraphRefreshKeeps
<1>3. CASE AskGraph
  BY <1>3, AskGraphKeeps
<1>4. CASE AskDetail
  BY <1>4, AskDetailKeeps
<1>5. CASE Edit \/ CancelEdit
  BY <1>5, FormKeeps
<1>6. ASSUME NEW l \in PageLoads, AnswerDetail(l) \/ TakeGraph(l) \/ TakeDetail(l) PROVE ViewInv'
  BY <1>6, AnswerDetailKeeps, TakeGraphKeeps, TakeDetailKeeps
<1>7. ASSUME NEW s \in PageSaves, Submit(s) \/ Curate(s) \/ EditSaved(s) PROVE ViewInv'
  BY <1>7, SubmitKeeps, CurateKeeps, EditSavedKeeps
<1>8. ASSUME NEW d \in Registered, OtherEdits(d) PROVE ViewInv'
  BY <1>8, OtherEditsKeep
<1>9. CASE UNCHANGED viewVars
  BY <1>9 DEF viewVars, ViewInv, ViewTypeOK, EditorOK, DatasetShown, DetailShown, SelectedNode,
              SavesOK, GraphOK, DetailOK, FreshOf, ReadyAt
<1> QED
  BY <1>1, <1>2, <1>3, <1>4, <1>5, <1>6, <1>7, <1>8, <1>9 DEF ViewNext, GoesAbout

LEMMA RestShowsIt == ViewInv => RestIsCurrent
<1> SUFFICES ASSUME ViewInv, PageAtRest
             PROVE  /\ graph.pc = "data" => graph.of = [place EXCEPT !.selected = Nothing]
                    /\ graph.pc = "idle" <=> ~Ready
                    /\ graph.pc # "loading"
                    /\ SelectedNode \in graph.detailed =>
                          /\ detail.node = SelectedNode
                          /\ SelectedNode \in Registered /\ detail.edition # Failed
                                => detail.edition >= own[SelectedNode]
  BY DEF RestIsCurrent
<1>1. /\ ~graphDue /\ asked = [place EXCEPT !.selected = Nothing] /\ watched = SelectedNode
      /\ \A l \in PageLoads : ~graphLoad[l].current /\ ~detailLoad[l].current
  BY DEF PageAtRest, GraphIsDue, DetailIsDue
<1>2. Ready <=> ReadyAt(asked)
  BY <1>1, BarePlace DEF ViewInv, ViewTypeOK
<1>3. /\ graph.pc = "data" => graph.of = [place EXCEPT !.selected = Nothing]
      /\ graph.pc = "idle" <=> ~Ready
      /\ graph.pc # "loading"
  BY <1>1, <1>2 DEF ViewInv, GraphOK
<1>4. ASSUME SelectedNode \in graph.detailed
      PROVE  detail.node = SelectedNode /\ FreshOf(SelectedNode, detail.edition)
  BY <1>1, <1>4 DEF ViewInv, DetailOK
<1> QED
  BY <1>3, <1>4 DEF FreshOf

LEMMA FieldsStay == ViewInv => FieldsStayHome
BY ShownIs DEF ViewInv, EditorOK, SavesOK, FieldsStayHome

\* Whatever is clicked, edited and answered late in between, the lineage page at
\* rest shows the graph of its place and no older edition of a dataset than its
\* own last one, and a form never saves the fields of one dataset to another.
THEOREM OneMind == ViewSpec => []PageIsOfOneMind
<1>1. ViewInv => PageIsOfOneMind
  BY RestShowsIt, FieldsStay DEF PageIsOfOneMind
<1> QED
  BY <1>1, ViewInitially, ViewKeeps, PTL DEF ViewSpec
=============================================================================
