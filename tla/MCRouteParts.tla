---------------------------- MODULE MCRouteParts ----------------------------
\* Parts of the api and of the worker of which each needs few states, and the player
\* deck, in one run of TLC: the job queue with one worker, the README of a prefix, its
\* cached listings, audited content, lineage metadata and events, sessions of a single
\* sign-on, the cache of tar indexes and one tar index.  They share no state; a
\* behaviour runs one of them and leaves the others where they begin.
EXTENDS JobQueue, ReadmeListing, AuditedContent, LineageCuration, OidcSessions,
        TarIndexCache, TarRangeIndex, MCPlayerDeck

CONSTANTS
    k1, k2, w1, c1,
    put1, put2, put3, get1, get2, flat, text1, text2,
    change1, change2, tag1, tag2,
    edit1, edit2, edit3, tags, bucket, send1, send2, run1,
    login1, login2, visit1, visit2, viewer,
    tar1, tar2, head1, head2, tab1, tab2, tab3

VARIABLE part

-----------------------------------------------------------------------------
(* The queue: the kind of k2 has no handler, and the third job is for the key *)
(* of the first.                                                             *)

OneWorker == {w1}
TwoKeys == {k1, k2}
OnlyK2 == {k2}
OneClient == {c1}

FirstKeyAgain == status'[3] # "absent" => keyOf'[3] = keyOf'[1]

-----------------------------------------------------------------------------
(* The README: three PUTs of two bodies, or one PUT among listings.          *)

ThreePuts == {put1, put2, put3}
TwoTexts == {text1, text2}
TwoGets == {get1, get2}
OneScope == {flat}

-----------------------------------------------------------------------------
(* Content: two requests, which may name the same thing in two ways.         *)

TwoChanges == {change1, change2}
TwoTags == {tag1, tag2}
SomeChanges ==
    { [kind |-> "note", body |-> text1], [kind |-> "note", body |-> text2],
      [kind |-> "tag.create", tag |-> tag1, name |-> text1],
      [kind |-> "tag.update", tag |-> tag1, name |-> text1],
      [kind |-> "tag.create", tag |-> tag2, name |-> text2],
      [kind |-> "tag.delete", tag |-> tag1],
      [kind |-> "assign", tag |-> tag1], [kind |-> "unassign", tag |-> tag1],
      [kind |-> "pin", to |-> TRUE], [kind |-> "setting", to |-> "off"],
      [kind |-> "scan", buckets |-> {1, 2}], [kind |-> "users"] }

-----------------------------------------------------------------------------
(* Lineage: three edits or registrations, or two deliveries of one event.    *)

ThreeEdits == {edit1, edit2, edit3}
OneField == {tags}
TwoValues == {text1, text2}
OnePlace == {bucket}
TwoSends == {send1, send2}
OneEvent == {run1}

-----------------------------------------------------------------------------
(* Single sign-on: two requests of one session, or two logins of one browser *)
(* with one request, on a day when nothing else goes wrong.                  *)

TwoLogins == {login1, login2}
TwoVisits == {visit1, visit2}

OneLogin == signIn'[login2].pc = "idle"

TwoLoginsOneVisit ==
    /\ visit'[visit2].pc = "idle"
    /\ \A l \in TwoLogins :
          /\ signIn'[l].pc # "failed" /\ attempt'[l] # "expired"
          /\ ~sso'[l].lapsed /\ (sso'[l].state = "live" => sso'[l].refresh = 1)
    /\ \A v \in TwoVisits : visit'[v].pc # "unavailable"
    /\ ~SsoRestart

-----------------------------------------------------------------------------
(* The cache: one HEAD at a time of each of two objects; a storage without  *)
(* ETags has no archive that fills the file.                                *)

HeadKeys == (head1 :> tar1) @@ (head2 :> tar2)

BigWithEtags == etags \/ \A i \in Indexes : index'[i] # Closed => ~index'[i].big

-----------------------------------------------------------------------------
(* The index: names that wait for an entry while scans stop and others go   *)
(* on.  A global one below a local one and above a long one, two for one    *)
(* entry, one that hides its entry, and an archive that ends behind one.    *)

H(type, name) == [type |-> type, name |-> name]

SomeArchives ==
    { <<>>,
      <<H("g", "q"), H("x", "p"), H("file", "h"), H("file", "p")>>,
      <<H("x", "h"), H("file", "p"), H("file", "p")>>,
      <<H("g", "p"), H("L", "q"), H("file", "h")>>,
      <<H("L", "q"), H("K", "p"), H("file", "p"), H("file", "p")>>,
      <<H("x", "q"), H("L", "p"), H("file", "p"), H("L", "p")>> }

SomeOperations ==
    { [kind |-> "list", from |-> 0, to |-> 1],
      [kind |-> "list", from |-> 1, to |-> 2],
      [kind |-> "find", name |-> "p"] }

-----------------------------------------------------------------------------
(* The deck: what is heard of its tracks while no time goes by, the analysis of   *)
(* one of them being asked for twice; or how they keep time while no button of a  *)
(* track is used.                                                                *)

NoTimeGoesBy ==
    /\ masterTime' = 0
    /\ \A t \in TrackIds : ~element'[t].known /\ element'[t].at = 0
    /\ channels'[long] # "one" /\ channels'[short] # "more"
    /\ asked'[long] <= 1

NoTrackButtons == UNCHANGED <<soloId, muted, channelOf, channels>>

-----------------------------------------------------------------------------
allVars == <<part, vars, rlVars, auditVars, lineageVars, ssoVars, tarVars, rangeVars, deckVars>>

MCInit ==
    /\ part \in {"queue", "readme", "listing", "content", "curation", "events",
                 "session", "logins", "tar indexes", "tar index", "sound", "time"}
    /\ Init /\ ReadmeInit /\ AuditInit /\ LineageInit /\ OidcInit /\ TarInit /\ RangeInit
    /\ DeckInit
    /\ part # "curation" => dataset = [f \in Fields |-> text1] /\ bound
    /\ part # "tar indexes" => etags
    /\ part # "tar index" => archive = <<>>

\* One PUT of the README, or else a second one of the connection.
OnePutOf(text) ==
    /\ \A e \in Editors \ {put1} : readmePut'[e].pc = "idle"
    /\ readmePut'[put1].body \in {Nobody, text}
    /\ conn'.version = 2 => readmePut'[put1].pc = "idle"

MCNext ==
    /\ UNCHANGED part
    /\ IF part = "queue" THEN Next /\ FirstKeyAgain ELSE UNCHANGED vars
    /\ \/ part = "readme" /\ ReadmeNext /\ UNCHANGED <<conn, lister>>
       \/ part = "listing" /\ ReadmeNext /\ OnePutOf(text2)
       \/ part \notin {"readme", "listing"} /\ UNCHANGED rlVars
    /\ IF part = "content" THEN AuditNext ELSE UNCHANGED auditVars
    /\ \/ part = "curation" /\ LineageNext /\ UNCHANGED ingestVars
       \/ part = "events" /\ LineageNext /\ UNCHANGED <<registryVars, curator>>
       \/ part \notin {"curation", "events"} /\ UNCHANGED lineageVars
    /\ \/ part = "session" /\ OidcNext /\ OneLogin
       \/ part = "logins" /\ OidcNext /\ TwoLoginsOneVisit
       \/ part \notin {"session", "logins"} /\ UNCHANGED ssoVars
    /\ IF part = "tar indexes" THEN TarNext /\ BigWithEtags ELSE UNCHANGED tarVars
    /\ IF part = "tar index" THEN RangeNext ELSE UNCHANGED rangeVars
    /\ \/ part = "sound" /\ DeckNext /\ NoTimeGoesBy
       \/ part = "time" /\ DeckNext /\ NoTrackButtons
       \/ part \notin {"sound", "time"} /\ UNCHANGED deckVars

MCSpec == MCInit /\ [][MCNext]_allVars
=============================================================================
