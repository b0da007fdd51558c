------------------------ MODULE DocumentAndMailProofs -------------------------
(***************************************************************************)
(* Proofs about the documents of abstracts and about what is mailed: the   *)
(* author's pages that file documents, the wizard that uploads many, the   *)
(* form of an abstract, and the two stores that keep them; and the worker  *)
(* that sends the queued mails. For every set of abstracts and documents   *)
(* and any number of clicks; for every number of mails, workers, attempts  *)
(* and rows in a batch.                                                    *)
(***************************************************************************)
EXTENDS MCDocuments, EmailWorker, SequenceTheorems, FiniteSetTheorems, TLAPS
LOCAL INSTANCE SequencesExt

-------------------------------------------------------------------------------
(* The author's pages. *)

Place == {"list", "buttons", "banner", "card"}
Request == [n : Nat, place : Place, op : AuthorOp, paper : Paper, doc : Doc,
         at : {"sent", "loaded", "done", "failed"}, held : Row, row : Row]

AuthorTyped ==
    /\ filed \in [Paper -> Row] /\ shown \in [Paper -> Row]
    /\ asked \subseteq Request
    /\ viewer.role \in {"submitter"} \cup ChairRoles
    /\ clicks \in Nat

\* The requests about an abstract that were carried out and not heard of yet:
\* on its status, and on its documents.
OnStatus(p) == {r \in asked : r.paper = p /\ r.at = "done" /\ r.op \notin DocOps}
OnDocs(p) == {r \in asked : r.paper = p /\ r.at = "done" /\ r.op \in DocOps}
Deleted(p) == \E r \in OnStatus(p) : r.op = "delete"

\* The requests that were accepted and not carried out yet.
Accepted(p) == {r \in asked : r.paper = p /\ r.at = "loaded"}

\* What was accepted was allowed on the status it was accepted for, which no
\* request leads to.
AcceptedFits ==
    \A r \in asked : r.at = "loaded" =>
        /\ r.op \in DOMAIN Moves => r.row.status \in {"draft", "notified"}
        /\ r.op = "replacement" => r.row.status = "files_submitted"

\* What the answers on their way tell of the abstract.
ToldOfStatus(p) ==
    \A r \in OnStatus(p) :
        /\ r.op \in DOMAIN Moves => r.row.status = Moves[r.op]
        /\ r.op = "replacement" => r.row.status = "confirmed"
        /\ r.op = "delete" => filed[p].status = Nothing
        /\ Deleted(p) \/ r.row.status = filed[p].status

StatusFollows(p) ==
    /\ ToldOfStatus(p)
    /\ OnStatus(p) = {} => shown[p].status = filed[p].status

\* While nothing crosses, the requests on their way are of one kind, and an
\* upload is of a document nothing else is about.
OneKind(p) ==
    \A r, s \in asked : r.paper = p /\ s.paper = p => (r.op \in DocOps <=> s.op \in DocOps)
UploadsFresh(p) ==
    \A r \in asked : r.paper = p /\ r.op = "attach" =>
        /\ r.doc \notin shown[p].docs
        /\ \A s \in asked : s.paper = p /\ s.op \in DocOps /\ s.doc = r.doc => s.n = r.n

DocsFollow(p) ==
    \/ Deleted(p)
    \/ /\ \A d \in Doc : \/ d \in filed[p].docs <=> d \in shown[p].docs
                         \/ \E r \in OnDocs(p) : r.doc = d
       /\ \A r \in OnDocs(p) : r.doc \in filed[p].docs <=> r.op = "attach"
       /\ \A r \in OnStatus(p) : r.row.docs = filed[p].docs
       /\ \A r \in Accepted(p) : r.op \notin DocOps => r.row.docs = filed[p].docs

\* No two requests have the same number.
Numbered == /\ \A r \in asked : r.n < clicks
            /\ \A r, s \in asked : r.n = s.n => r = s

AuthorInv ==
    /\ AuthorTyped /\ Numbered /\ AcceptedFits
    /\ \A p \in Paper : p \notin crossed => OneKind(p) /\ UploadsFresh(p)
    /\ opened # Away =>
         \A p \in Paper : /\ p \notin meddled \cup raced => StatusFollows(p)
                          /\ p \notin meddled \cup crossed => DocsFollow(p)

LEMMA Ops == /\ DOMAIN Moves = {"submit", "confirm", "withdraw"}
             /\ Moves["submit"] = "submitted" /\ Moves["confirm"] = "confirmed"
             /\ Moves["withdraw"] = "withdrawn"
             /\ DocOps = {"attach", "detach"}
             /\ AuthorOp = {"submit", "confirm", "withdraw", "attach", "detach", "delete", "replacement"}
             /\ "delete" \notin DocOps /\ "replacement" \notin DocOps
             /\ \A op \in DOMAIN Moves : op \notin DocOps
  BY DEF Moves, DocOps, AuthorOp

\* What a request that is carried out does to a row.
LEMMA CarriedOut ==
    ASSUME NEW op \in AuthorOp, NEW row \in Row, NEW d \in Doc
    PROVE  /\ Carried(op, row, d) \in Row
           /\ op \in DocOps => Carried(op, row, d).status = row.status
           /\ op = "attach" => Carried(op, row, d).docs = row.docs \cup {d}
           /\ op = "detach" => Carried(op, row, d).docs = row.docs \ {d}
           /\ op \in DOMAIN Moves => Carried(op, row, d).status = Moves[op]
           /\ op = "replacement" => Carried(op, row, d).status = "confirmed"
           /\ op = "delete" => Carried(op, row, d).status = Nothing
           /\ op \notin DocOps \cup {"delete"} => Carried(op, row, d).docs = row.docs
<1>2. CASE op \in DOMAIN Moves
  <2>1. Moves[op] \in SubmissionStatus
    BY <1>2, Ops DEF SubmissionStatus
  <2> QED
    BY <1>2, <2>1, Ops DEF Carried, Row
<1>3. CASE op = "replacement"
  BY <1>3, Ops DEF Carried, Row, SubmissionStatus
<1>4. CASE op = "delete"
  BY <1>4, Ops DEF Carried, Row
<1>5. CASE op = "attach"
  BY <1>5, Ops DEF Carried, Row
<1>6. CASE op = "detach"
  BY <1>6, Ops DEF Carried, Row
<1> QED
  BY <1>2, <1>3, <1>4, <1>5, <1>6, Ops

\* From where an abstract may be moved.
LEMMA Granted ==
    ASSUME NEW op \in AuthorOp, NEW p \in Paper, NEW d \in Doc, Grants(op, p, d)
    PROVE  /\ op \in DOMAIN Moves => filed[p].status \in {"draft", "notified"}
           /\ op = "replacement" => filed[p].status = "files_submitted"
<1>1. CASE op \in DOMAIN Moves
  <2>1. Validate(filed[p].status, Moves[op], viewer.role, late) = "accepted"
    BY <1>1, Ops DEF Grants
  <2>2. <<filed[p].status, Moves[op]>> \in TRANSITIONS
    BY <2>1 DEF Validate
  <2>3. Moves[op] \in {"submitted", "confirmed", "withdrawn"}
    BY <1>1, Ops
  <2> QED
    BY <1>1, <2>2, <2>3, Ops DEF TRANSITIONS
<1>2. CASE op = "replacement"
  BY <1>2, Ops DEF Grants
<1> QED
  BY <1>1, <1>2, Ops

LEMMA InitAuthorInv == ASSUME AuthorInit PROVE AuthorInv
<1>1. filed \in [Paper -> Row] /\ shown = filed /\ asked = {} /\ clicks = 0
  BY DEF AuthorInit
<1>2. viewer.role \in {"submitter"} \cup ChairRoles
  BY DEF AuthorInit
<1> QED
  BY <1>1, <1>2 DEF AuthorInv, AuthorTyped, Numbered, AcceptedFits, OneKind, UploadsFresh,
     StatusFollows, ToldOfStatus, DocsFollow, OnStatus, OnDocs, Accepted, Deleted

\* The requests of an abstract are the same before and after a step about another.
LEMMA ClickKeeps ==
    ASSUME AuthorInv, NEW place \in Place, NEW op \in AuthorOp, NEW p \in Paper, NEW d \in Doc,
           Click(place, op, p, d)
    PROVE  AuthorInv'
<1> USE DEF AuthorInv
<1> DEFINE q == [n |-> clicks, place |-> place, op |-> op, paper |-> p, doc |-> d,
                 at |-> "sent", held |-> shown[p], row |-> shown[p]]
<1>1. /\ asked' = asked \cup {q} /\ clicks' = clicks + 1
      /\ UNCHANGED <<filed, late, viewer, opened, shown, meddled, raced>>
      /\ Offered(place, op, p, d)
      /\ op = "attach" => ~\E r \in asked : r.paper = p /\ r.doc = d /\ r.op \in DocOps
      /\ crossed' = IF \E r \in asked : r.paper = p /\ (op \in DocOps <=> r.op \notin DocOps)
                    THEN crossed \cup {p} ELSE crossed
  BY DEF Click
<1>2. q \in Request /\ q.n = clicks /\ q.op = op /\ q.paper = p /\ q.doc = d /\ q.at = "sent"
  BY DEF Request, AuthorTyped
<1> HIDE DEF q
<1>3. AuthorTyped'
  BY <1>1, <1>2 DEF AuthorTyped
<1>4. Numbered' /\ AcceptedFits'
  BY <1>1, <1>2 DEF Numbered, AuthorTyped, Request, AcceptedFits
<1>5. \A x \in Paper : /\ OnStatus(x)' = OnStatus(x) /\ OnDocs(x)' = OnDocs(x)
                       /\ Accepted(x)' = Accepted(x) /\ (Deleted(x)' <=> Deleted(x))
  <2>1. \A x \in Paper : /\ OnStatus(x)' = OnStatus(x) /\ OnDocs(x)' = OnDocs(x)
                         /\ Accepted(x)' = Accepted(x)
    BY <1>1, <1>2 DEF OnStatus, OnDocs, Accepted
  <2> QED
    BY <2>1 DEF Deleted
<1>6. ASSUME NEW x \in Paper, x \notin crossed' PROVE OneKind(x)' /\ UploadsFresh(x)'
  <2>1. OneKind(x) /\ UploadsFresh(x) /\ x \notin crossed
    BY <1>1, <1>6
  <2>2. CASE x # p
    BY <1>1, <1>2, <2>1, <2>2 DEF OneKind, UploadsFresh
  <2>3. CASE x = p
    <3>1. \A r \in asked : r.paper = p => (op \in DocOps <=> r.op \in DocOps)
      BY <1>1, <1>6, <2>3
    <3>2. OneKind(x)'
      BY <1>1, <1>2, <2>1, <2>3, <3>1 DEF OneKind
    <3>3. op = "attach" => d \notin shown[p].docs
      BY <1>1, Ops DEF Offered, ListOffers, ButtonsOffer, BannerOffers, CardOffers
    <3>4. \A r \in asked : r.paper = p /\ r.op = "attach" /\ op \in DocOps => r.doc # d
      <4> SUFFICES ASSUME NEW r \in asked, r.paper = p, r.op = "attach", op \in DocOps, r.doc = d
                   PROVE  FALSE
        OBVIOUS
      <4>1. op = "detach"
        BY <1>1, Ops
      <4>2. d \in shown[p].docs
        BY <1>1, <4>1, Ops DEF Offered, ListOffers, ButtonsOffer, BannerOffers, CardOffers
      <4> QED
        BY <2>1, <2>3, <4>2 DEF UploadsFresh
    <3>5. UploadsFresh(x)'
      BY <1>1, <1>2, <2>1, <2>3, <3>3, <3>4, Ops DEF UploadsFresh
    <3> QED
      BY <3>2, <3>5
  <2> QED
    BY <2>2, <2>3
<1>7. ASSUME NEW x \in Paper PROVE /\ StatusFollows(x) => StatusFollows(x)'
                                   /\ DocsFollow(x) => DocsFollow(x)'
  BY <1>1, <1>5 DEF StatusFollows, ToldOfStatus, DocsFollow
<1>8. /\ opened' = opened /\ meddled' = meddled /\ raced' = raced
      /\ crossed \subseteq crossed'
  BY <1>1
<1> QED
  BY <1>3, <1>4, <1>6, <1>7, <1>8

\* A request that is answered keeps its place among the others.
LEMMA AnsweredInPlace ==
    ASSUME AuthorInv, NEW r \in asked, NEW q \in Request, asked' = (asked \ {r}) \cup {q},
           q.n = r.n, q.op = r.op, q.paper = r.paper, q.doc = r.doc,
           shown' = shown, clicks' = clicks, NEW x \in Paper, OneKind(x), UploadsFresh(x)
    PROVE  OneKind(x)' /\ UploadsFresh(x)'
<1>1. OneKind(x)'
  BY DEF OneKind
<1>2. ASSUME NEW s \in asked', s.paper = x, s.op = "attach",
             NEW t \in asked', t.paper = x, t.op \in DocOps, t.doc = s.doc
      PROVE  s.doc \notin shown'[x].docs /\ t.n = s.n
  <2>1. PICK s0 \in asked : s0.paper = x /\ s0.op = "attach" /\ s0.doc = s.doc /\ s0.n = s.n
    BY <1>2
  <2>2. PICK t0 \in asked : t0.paper = x /\ t0.op \in DocOps /\ t0.doc = s.doc /\ t0.n = t.n
    BY <1>2
  <2> QED
    BY <2>1, <2>2 DEF UploadsFresh
<1>3. ASSUME NEW s \in asked', s.paper = x, s.op = "attach"
      PROVE  s.doc \notin shown'[x].docs
  BY <1>2, <1>3, Ops
<1> QED
  BY <1>1, <1>2, <1>3 DEF UploadsFresh

\* A step that leaves the answers of an abstract and its rows alone, and accepts
\* nothing about it or only for the row as it is, changes nothing of what the page
\* expects of it.
LEMMA LeavesAlone ==
    ASSUME NEW x \in Paper, OnStatus(x)' = OnStatus(x), OnDocs(x)' = OnDocs(x),
           \A t \in Accepted(x)' : t \in Accepted(x) \/ t.row = filed[x],
           filed'[x] = filed[x], shown' = shown
    PROVE  /\ StatusFollows(x) => StatusFollows(x)'
           /\ DocsFollow(x) => DocsFollow(x)'
<1>1. Deleted(x)' <=> Deleted(x)
  BY DEF Deleted
<1>2. StatusFollows(x) => StatusFollows(x)'
  BY <1>1 DEF StatusFollows, ToldOfStatus
<1>3. ASSUME DocsFollow(x), ~Deleted(x) PROVE DocsFollow(x)'
  <2>1. \A t \in Accepted(x)' : t.op \notin DocOps => t.row.docs = filed'[x].docs
    BY <1>3 DEF DocsFollow
  <2> QED
    BY <1>3, <2>1 DEF DocsFollow
<1> QED
  BY <1>1, <1>2, <1>3 DEF DocsFollow

LEMMA LoadKeeps == ASSUME AuthorInv, NEW r \in asked, Load(r) PROVE AuthorInv'
<1> USE DEF AuthorInv
<1> DEFINE p == r.paper
           failed == [r EXCEPT !.at = "failed"]
           loaded == [r EXCEPT !.at = "loaded", !.row = filed[p]]
<1>1. /\ r \in Request /\ r.at = "sent" /\ p \in Paper /\ r.op \in AuthorOp /\ r.doc \in Doc
      /\ filed[p] \in Row
      /\ UNCHANGED <<filed, late, viewer, opened, shown, pressed, clicks, meddled, crossed, raced>>
  BY DEF Load, AuthorTyped, Request
<1>2. PICK q \in {failed} \cup (IF Grants(r.op, p, r.doc) THEN {loaded} ELSE {}) :
         asked' = (asked \ {r}) \cup {q}
  BY DEF Load
<1>3. /\ q \in Request /\ q.n = r.n /\ q.op = r.op /\ q.paper = p /\ q.doc = r.doc
      /\ \/ q.at = "failed"
         \/ q.at = "loaded" /\ q.row = filed[p] /\ Grants(r.op, p, r.doc)
  BY <1>1, <1>2 DEF Request
<1> HIDE DEF failed, loaded
<1>4. AuthorTyped'
  BY <1>1, <1>2, <1>3 DEF AuthorTyped
<1>5. Numbered'
  BY <1>1, <1>2, <1>3 DEF Numbered
<1>6. AcceptedFits'
  <2>1. q.at = "loaded" => /\ r.op \in DOMAIN Moves => q.row.status \in {"draft", "notified"}
                           /\ r.op = "replacement" => q.row.status = "files_submitted"
    BY <1>1, <1>3, Granted
  <2> QED
    BY <1>2, <1>3, <2>1 DEF AcceptedFits
<1>7. \A x \in Paper : OneKind(x) /\ UploadsFresh(x) => OneKind(x)' /\ UploadsFresh(x)'
  BY <1>1, <1>2, <1>3, AnsweredInPlace
<1>8. ASSUME NEW x \in Paper
      PROVE  /\ StatusFollows(x) => StatusFollows(x)'
             /\ DocsFollow(x) => DocsFollow(x)'
  <2>1. OnStatus(x)' = OnStatus(x) /\ OnDocs(x)' = OnDocs(x)
    BY <1>1, <1>2, <1>3 DEF OnStatus, OnDocs
  <2>2. \A t \in Accepted(x)' : t \in Accepted(x) \/ t.row = filed[x]
    BY <1>1, <1>2, <1>3 DEF Accepted
  <2> QED
    BY <1>1, <2>1, <2>2, LeavesAlone
<1> QED
  BY <1>1, <1>4, <1>5, <1>6, <1>7, <1>8

\* A request that is not carried out, or whose answer is lost, changes nothing of
\* what the page expects of an abstract nobody meddled with.
LEMMA FailedKeeps ==
    ASSUME AuthorInv, NEW r \in asked, r.at = "loaded", NEW q \in Request, q.at = "failed",
           q.n = r.n, q.op = r.op, q.paper = r.paper, q.doc = r.doc,
           asked' = (asked \ {r}) \cup {q}, filed' \in [Paper -> Row],
           \A x \in Paper \ meddled' : filed'[x] = filed[x],
           meddled \subseteq meddled', raced \subseteq raced',
           UNCHANGED <<viewer, opened, shown, clicks, crossed>>
    PROVE  AuthorInv'
<1> USE DEF AuthorInv
<1>1. r \in Request
  BY DEF AuthorTyped
<1>2. AuthorTyped' /\ Numbered' /\ AcceptedFits'
  BY <1>1 DEF AuthorTyped, Numbered, AcceptedFits
<1>3. \A x \in Paper : OneKind(x) /\ UploadsFresh(x) => OneKind(x)' /\ UploadsFresh(x)'
  BY AnsweredInPlace
<1>4. ASSUME NEW x \in Paper \ meddled'
      PROVE  /\ StatusFollows(x) => StatusFollows(x)'
             /\ DocsFollow(x) => DocsFollow(x)'
  <2>1. OnStatus(x)' = OnStatus(x) /\ OnDocs(x)' = OnDocs(x)
    BY DEF OnStatus, OnDocs
  <2>2. \A t \in Accepted(x)' : t \in Accepted(x) \/ t.row = filed[x]
    BY DEF Accepted
  <2> QED
    BY <2>1, <2>2, LeavesAlone
<1> QED
  BY <1>2, <1>3, <1>4

\* A request is carried out, and its answer is on its way.
LEMMA DoneKeeps ==
    ASSUME AuthorInv, NEW r \in asked, r.at = "loaded", RowThere(r),
           filed' = [filed EXCEPT ![r.paper] = Carried(r.op, filed[r.paper], r.doc)],
           asked' = (asked \ {r})
                    \cup {[r EXCEPT !.at = "done", !.row = Carried(r.op, r.row, r.doc)]},
           raced' = IF Overwrites(r) THEN raced \cup {r.paper} ELSE raced,
           UNCHANGED <<viewer, opened, shown, clicks, meddled, crossed>>
    PROVE  AuthorInv'
<1> USE DEF AuthorInv
<1> DEFINE p == r.paper
<1>1. /\ r \in Request /\ p \in Paper /\ r.op \in AuthorOp /\ r.doc \in Doc /\ r.row \in Row
      /\ filed[p] \in Row
  BY DEF AuthorTyped, Request
<1>2. PICK row \in Row : row = Carried(r.op, r.row, r.doc)
  BY <1>1, CarriedOut
<1>3. PICK now \in Row : now = Carried(r.op, filed[p], r.doc)
  BY <1>1, CarriedOut
<1>4. filed'[p] = now /\ filed' \in [Paper -> Row] /\ \A x \in Paper \ {p} : filed'[x] = filed[x]
  BY <1>1, <1>3 DEF AuthorTyped
<1> DEFINE q == [r EXCEPT !.at = "done", !.row = row]
<1>5. q \in Request /\ q.n = r.n /\ q.op = r.op /\ q.paper = p /\ q.doc = r.doc /\ q.at = "done"
      /\ q.row = row
  BY <1>1 DEF Request
<1>6. asked' = (asked \ {r}) \cup {q}
  BY <1>2
<1> HIDE DEF q
<1>7. AuthorTyped' /\ Numbered' /\ AcceptedFits'
  <2>1. AuthorTyped' /\ Numbered'
    BY <1>1, <1>4, <1>5, <1>6 DEF AuthorTyped, Numbered
  <2>2. AcceptedFits'
    BY <1>5, <1>6 DEF AcceptedFits
  <2> QED
    BY <2>1, <2>2
<1>8. \A x \in Paper : OneKind(x) /\ UploadsFresh(x) => OneKind(x)' /\ UploadsFresh(x)'
  BY <1>1, <1>5, <1>6, AnsweredInPlace
<1>9. ASSUME NEW x \in Paper \ {p}
      PROVE  /\ StatusFollows(x) => StatusFollows(x)'
             /\ DocsFollow(x) => DocsFollow(x)'
  <2>1. OnStatus(x)' = OnStatus(x) /\ OnDocs(x)' = OnDocs(x) /\ Accepted(x)' = Accepted(x)
    BY <1>5, <1>6 DEF OnStatus, OnDocs, Accepted
  <2> QED
    BY <1>4, <2>1, LeavesAlone
<1>10. Accepted(p)' \subseteq Accepted(p)
  BY <1>5, <1>6 DEF Accepted
<1>11. ASSUME r.op \notin DocOps
       PROVE  /\ StatusFollows(p) => p \in raced' \/ StatusFollows(p)'
              /\ OneKind(p) /\ DocsFollow(p) => DocsFollow(p)'
  <2>1. OnStatus(p)' = OnStatus(p) \cup {q} /\ OnDocs(p)' = OnDocs(p)
    BY <1>1, <1>5, <1>6, <1>11 DEF OnStatus, OnDocs
  <2>2. r.op = "delete" \/ Deleted(p) => Deleted(p)'
    BY <1>5, <2>1 DEF Deleted
  <2>3. /\ r.op \in DOMAIN Moves =>
              now.status = Moves[r.op] /\ row.status = Moves[r.op]
                                       /\ r.row.status \in {"draft", "notified"}
        /\ r.op = "replacement" =>
              now.status = "confirmed" /\ row.status = "confirmed"
                                       /\ r.row.status = "files_submitted"
        /\ r.op = "delete" => now.status = Nothing
        /\ r.op # "delete" => now.docs = filed[p].docs /\ row.docs = r.row.docs
                              /\ row.status = now.status
    <3>1. /\ r.op \in DOMAIN Moves => r.row.status \in {"draft", "notified"}
          /\ r.op = "replacement" => r.row.status = "files_submitted"
      BY DEF AcceptedFits
    <3>2. /\ r.op \in DOMAIN Moves => now.status = Moves[r.op]
          /\ r.op = "replacement" => now.status = "confirmed"
          /\ r.op = "delete" => now.status = Nothing
          /\ r.op \notin DocOps \cup {"delete"} => now.docs = filed[p].docs
      BY <1>1, <1>3, CarriedOut
    <3>3. /\ r.op \in DOMAIN Moves => row.status = Moves[r.op]
          /\ r.op = "replacement" => row.status = "confirmed"
          /\ r.op \notin DocOps \cup {"delete"} => row.docs = r.row.docs
      BY <1>1, <1>2, CarriedOut
    <3>4. r.op \in DOMAIN Moves \cup {"replacement", "delete"}
      BY <1>1, <1>11, Ops
    <3> QED
      BY <1>11, <3>1, <3>2, <3>3, <3>4, Ops
  <2>4. ASSUME StatusFollows(p), ~Overwrites(r) PROVE StatusFollows(p)'
    <3>1. CASE r.op = "delete"
      BY <1>4, <1>5, <2>1, <2>2, <2>3, <2>4, <3>1, Ops DEF StatusFollows, ToldOfStatus
    <3>2. CASE r.op # "delete"
      <4>1. filed[p].status # Nothing
        BY <1>11, <3>2, Ops DEF RowThere
      <4>2. filed[p].status \in {r.row.status, row.status}
        BY <1>2, <1>11, <2>4, <3>2 DEF Overwrites
      <4>3. ~Deleted(p)
        BY <2>4, <4>1 DEF Deleted, StatusFollows, ToldOfStatus
      <4>4. \A s \in OnStatus(p) : s.op \in AuthorOp \ (DocOps \cup {"delete"})
        BY <4>3 DEF Deleted, OnStatus, AuthorTyped, Request
      <4>5. \A s \in OnStatus(p) : /\ s.row.status = filed[p].status
                                   /\ s.row.status \in {"submitted", "confirmed", "withdrawn"}
        BY <2>4, <4>3, <4>4, Ops DEF StatusFollows, ToldOfStatus
      <4>6. r.op \in DOMAIN Moves \cup {"replacement"}
        BY <1>1, <1>11, <3>2, Ops
      <4>7. OnStatus(p) = {} \/ filed[p].status = row.status
        BY <2>3, <4>2, <4>5, <4>6
      <4>8. \A s \in OnStatus(p) : s.row.status = row.status
        BY <4>5, <4>7
      <4>9. ASSUME NEW s \in OnStatus(p)'
            PROVE  /\ s.op \in DOMAIN Moves => s.row.status = Moves[s.op]
                   /\ s.op = "replacement" => s.row.status = "confirmed"
                   /\ s.op # "delete" /\ s.row.status = filed'[p].status
        <5>1. CASE s = q
          BY <1>4, <1>5, <2>3, <3>2, <4>6, <5>1, Ops
        <5>2. CASE s \in OnStatus(p)
          BY <1>4, <2>3, <2>4, <3>2, <4>4, <4>8, <5>2 DEF StatusFollows, ToldOfStatus
        <5> QED
          BY <2>1, <5>1, <5>2
      <4> QED
        BY <2>1, <4>9 DEF StatusFollows, ToldOfStatus
    <3> QED
      BY <3>1, <3>2
  <2>5. ASSUME OneKind(p), DocsFollow(p), r.op # "delete", ~Deleted(p)
        PROVE  DocsFollow(p)'
    <3>1. r \in Accepted(p)
      BY DEF Accepted
    <3>2. row.docs = filed[p].docs /\ filed'[p].docs = filed[p].docs
      BY <1>4, <1>11, <2>3, <2>5, <3>1 DEF DocsFollow
    <3> QED
      BY <1>5, <1>10, <2>1, <2>5, <3>2 DEF DocsFollow
  <2>6. OneKind(p) /\ DocsFollow(p) => DocsFollow(p)'
    BY <2>2, <2>5 DEF DocsFollow
  <2> QED
    BY <2>4, <2>6
<1>12. ASSUME r.op \in DocOps
       PROVE  /\ StatusFollows(p) => StatusFollows(p)'
              /\ OneKind(p) /\ UploadsFresh(p) /\ DocsFollow(p) => DocsFollow(p)'
  <2>1. OnStatus(p)' = OnStatus(p) /\ OnDocs(p)' = OnDocs(p) \cup {q}
    BY <1>1, <1>5, <1>6, <1>12 DEF OnStatus, OnDocs
  <2>2. Deleted(p)' <=> Deleted(p)
    BY <2>1 DEF Deleted
  <2>3. now.status = filed[p].status
        /\ (r.op = "attach" => now.docs = filed[p].docs \cup {r.doc})
        /\ (r.op = "detach" => now.docs = filed[p].docs \ {r.doc})
    BY <1>1, <1>3, <1>12, CarriedOut
  <2>4. StatusFollows(p) => StatusFollows(p)'
    BY <1>4, <2>1, <2>2, <2>3 DEF StatusFollows, ToldOfStatus
  <2>5. ASSUME OneKind(p), UploadsFresh(p), DocsFollow(p), ~Deleted(p) PROVE DocsFollow(p)'
    <3>1. OnStatus(p) = {} /\ \A s \in Accepted(p) : s.op \in DocOps
      BY <1>1, <1>12, <2>5 DEF OneKind, OnStatus, Accepted
    <3>2. \A d \in Doc : \/ d \in filed'[p].docs <=> d \in shown'[p].docs
                         \/ \E s \in OnDocs(p)' : s.doc = d
      BY <1>1, <1>4, <1>5, <1>12, <2>1, <2>3, <2>5, Ops DEF DocsFollow
    <3>3. ASSUME NEW s \in OnDocs(p)' PROVE s.doc \in filed'[p].docs <=> s.op = "attach"
      <4>1. CASE s = q
        BY <1>4, <1>5, <1>12, <2>3, <4>1, Ops
      <4>2. CASE s \in OnDocs(p) /\ s.doc # r.doc
        BY <1>4, <1>12, <2>3, <2>5, <4>2, Ops DEF DocsFollow
      <4>3. CASE s \in OnDocs(p) /\ s.doc = r.doc
        <5>1. s \in asked /\ s.paper = p /\ s.op \in DocOps /\ s # r
          BY <4>3 DEF OnDocs
        <5>2. s.n # r.n
          BY <5>1 DEF Numbered
        <5>3. r.op # "attach" /\ s.op # "attach"
          BY <1>12, <2>5, <4>3, <5>1, <5>2 DEF UploadsFresh
        <5> QED
          BY <1>4, <1>12, <2>3, <2>5, <4>3, <5>3, Ops DEF DocsFollow
      <4> QED
        BY <2>1, <3>3, <4>1, <4>2, <4>3
    <3> QED
      BY <1>10, <2>1, <3>1, <3>2, <3>3 DEF DocsFollow
  <2> QED
    BY <2>2, <2>4, <2>5 DEF DocsFollow
<1>13. opened' # Away =>
          \A x \in Paper : /\ x \notin meddled' \cup raced' => StatusFollows(x)'
                           /\ x \notin meddled' \cup crossed' => DocsFollow(x)'
  BY <1>1, <1>8, <1>9, <1>11, <1>12
<1> QED
  BY <1>7, <1>8, <1>13

LEMMA CommitKeeps == ASSUME AuthorInv, NEW r \in asked, Commit(r) PROVE AuthorInv'
<1> DEFINE p == r.paper
           failed == [r EXCEPT !.at = "failed", !.row = r.held]
<1>1. /\ r \in Request /\ r.at = "loaded" /\ p \in Paper /\ r.op \in AuthorOp /\ r.doc \in Doc
      /\ filed \in [Paper -> Row] /\ filed[p] \in Row
      /\ UNCHANGED <<viewer, opened, shown, clicks, crossed>>
  BY DEF Commit, AuthorInv, AuthorTyped, Request
<1>2. failed \in Request /\ failed.at = "failed" /\ failed.n = r.n /\ failed.op = r.op
      /\ failed.paper = p /\ failed.doc = r.doc
  BY <1>1 DEF Request
<1>3. PICK now \in Row : now = Carried(r.op, filed[p], r.doc)
  BY <1>1, CarriedOut
<1>4. CASE /\ asked' = (asked \ {r}) \cup {failed} /\ raced \subseteq raced'
           /\ \/ filed' = filed /\ meddled' = meddled
              \/ meddled' = meddled \cup {p} /\ filed' = [filed EXCEPT ![p] = now]
  <2>1. /\ filed' \in [Paper -> Row] /\ meddled \subseteq meddled'
        /\ \A x \in Paper \ meddled' : filed'[x] = filed[x]
    BY <1>1, <1>4
  <2> QED
    BY <1>1, <1>2, <1>4, <2>1, FailedKeeps
<1>5. CASE /\ RowThere(r) /\ filed' = [filed EXCEPT ![p] = Carried(r.op, filed[p], r.doc)]
           /\ raced' = IF Overwrites(r) THEN raced \cup {p} ELSE raced
           /\ asked' = (asked \ {r})
                       \cup {[r EXCEPT !.at = "done", !.row = Carried(r.op, r.row, r.doc)]}
           /\ UNCHANGED meddled
  BY ZenonT(30), <1>1, <1>5, DoneKeeps
<1>6. \/ /\ RowThere(r)
         /\ filed' = [filed EXCEPT ![p] = Carried(r.op, filed[p], r.doc)]
         /\ raced' = IF Overwrites(r) THEN raced \cup {p} ELSE raced
         /\ \/ /\ asked' = (asked \ {r})
                           \cup {[r EXCEPT !.at = "done", !.row = Carried(r.op, r.row, r.doc)]}
               /\ UNCHANGED meddled
            \/ asked' = (asked \ {r}) \cup {failed} /\ meddled' = meddled \cup {p}
      \/ asked' = (asked \ {r}) \cup {failed} /\ UNCHANGED <<filed, meddled, raced>>
  BY DEF Commit
<1> HIDE DEF failed
<1> QED
  BY <1>3, <1>4, <1>5, <1>6

LEMMA HearKeeps == ASSUME AuthorInv, NEW r \in asked, Hear(r) PROVE AuthorInv'
<1> USE DEF AuthorInv
<1> DEFINE p == r.paper
<1>1. /\ r \in Request /\ r.at \in {"done", "failed"} /\ p \in Paper /\ r.op \in AuthorOp
      /\ r.doc \in Doc /\ r.row \in Row
      /\ asked' = asked \ {r}
      /\ UNCHANGED <<filed, late, viewer, clicks, meddled, crossed, raced>>
      /\ shown' = IF r.at = "done" /\ opened # Away
                  THEN [shown EXCEPT ![p] = Reflected(r, shown[p])] ELSE shown
      /\ opened' = IF r.at = "done" /\ r.op = "delete" THEN Away ELSE opened
  BY DEF Hear, AuthorTyped, Request
<1>2. /\ r.op = "attach" => /\ Reflected(r, shown[p]).status = shown[p].status
                            /\ Reflected(r, shown[p]).docs = shown[p].docs \cup {r.doc}
      /\ r.op = "detach" => /\ Reflected(r, shown[p]).status = shown[p].status
                            /\ Reflected(r, shown[p]).docs = shown[p].docs \ {r.doc}
      /\ r.op \notin DocOps => Reflected(r, shown[p]) = r.row
      /\ Reflected(r, shown[p]) \in Row
  <2>1. shown[p] \in Row
    BY <1>1 DEF AuthorTyped
  <2>2. CASE r.op = "attach"
    BY <1>1, <2>1, <2>2, Ops DEF Reflected, Row
  <2>3. CASE r.op = "detach"
    BY <1>1, <2>1, <2>3, Ops DEF Reflected, Row
  <2>4. CASE r.op \notin DocOps
    BY <1>1, <2>1, <2>4, Ops DEF Reflected
  <2> QED
    BY <2>2, <2>3, <2>4, Ops
<1>3. AuthorTyped' /\ Numbered' /\ AcceptedFits'
  BY <1>1, <1>2 DEF AuthorTyped, Numbered, AcceptedFits
<1>4. /\ shown' \in [Paper -> Row]
      /\ r.at = "done" /\ opened # Away => shown'[p] = Reflected(r, shown[p])
      /\ r.at # "done" \/ opened = Away => shown' = shown
      /\ \A x \in Paper \ {p} : shown'[x] = shown[x]
  BY <1>1, <1>2 DEF AuthorTyped
<1>5. ASSUME NEW x \in Paper, OneKind(x), UploadsFresh(x) PROVE OneKind(x)' /\ UploadsFresh(x)'
  <2>1. OneKind(x)'
    BY <1>1, <1>5 DEF OneKind
  <2>2. ASSUME NEW s \in asked', s.paper = x, s.op = "attach" PROVE s.doc \notin shown'[x].docs
    <3>1. s \in asked /\ s # r /\ s.doc \notin shown[x].docs
      BY <1>1, <1>5, <2>2 DEF UploadsFresh
    <3>2. CASE shown'[x] = shown[x]
      BY <3>1, <3>2
    <3>3. CASE x = p /\ shown'[x] = Reflected(r, shown[p])
      <4>1. r.op \in DocOps
        BY <1>5, <2>2, <3>1, <3>3, Ops DEF OneKind
      <4>2. r.doc # s.doc
        <5>1. r.doc = s.doc => r.n = s.n
          BY <1>5, <2>2, <3>1, <3>3, <4>1 DEF UploadsFresh
        <5> QED
          BY <3>1, <5>1 DEF Numbered
      <4> QED
        BY <1>2, <3>1, <3>3, <4>1, <4>2, Ops
    <3> QED
      BY <1>4, <1>5, <3>2, <3>3
  <2>3. UploadsFresh(x)'
    BY <1>1, <1>5, <2>2 DEF UploadsFresh
  <2> QED
    BY <2>1, <2>3
<1>6. ASSUME NEW x \in Paper, opened' # Away
      PROVE  /\ StatusFollows(x) => StatusFollows(x)'
             /\ OneKind(x) /\ DocsFollow(x) => DocsFollow(x)'
  <2>0. opened # Away /\ (r.at = "done" => r.op # "delete")
    BY <1>1, <1>6
  <2>1. (Deleted(x)' <=> Deleted(x)) /\ Accepted(x)' = Accepted(x)
    BY <1>1, <2>0 DEF Deleted, OnStatus, Accepted
  <2>2. CASE x # p \/ r.at # "done"
    <3>1. OnStatus(x)' = OnStatus(x) /\ OnDocs(x)' = OnDocs(x)
      BY <1>1, <2>2 DEF OnStatus, OnDocs
    <3>2. shown'[x] = shown[x]
      BY <1>4, <1>6, <2>2
    <3> QED
      BY <1>1, <2>1, <3>1, <3>2 DEF StatusFollows, ToldOfStatus, DocsFollow
  <2>3. CASE x = p /\ r.at = "done" /\ r.op \notin DocOps
    <3>1. OnStatus(x)' = OnStatus(x) \ {r} /\ OnDocs(x)' = OnDocs(x) /\ r \in OnStatus(x)
      BY <1>1, <2>3 DEF OnStatus, OnDocs
    <3>2. shown'[x] = r.row
      BY <1>2, <1>4, <2>0, <2>3
    <3>3. StatusFollows(x) => StatusFollows(x)'
      <4> SUFFICES ASSUME StatusFollows(x) PROVE StatusFollows(x)'
        OBVIOUS
      <4>1. ToldOfStatus(x)'
        BY <1>1, <2>1, <3>1 DEF StatusFollows, ToldOfStatus
      <4>2. Deleted(x) => OnStatus(x)' # {}
        BY <2>0, <2>3, <3>1 DEF Deleted
      <4> QED
        BY <1>1, <3>1, <3>2, <4>1, <4>2 DEF StatusFollows, ToldOfStatus
    <3>4. OneKind(x) /\ DocsFollow(x) => DocsFollow(x)'
      <4> SUFFICES ASSUME DocsFollow(x), ~Deleted(x) PROVE DocsFollow(x)'
        BY <2>1 DEF DocsFollow
      <4> QED
        BY <1>1, <2>1, <3>1, <3>2 DEF DocsFollow
    <3> QED
      BY <3>3, <3>4
  <2>4. CASE x = p /\ r.at = "done" /\ r.op \in DocOps
    <3>1. OnStatus(x)' = OnStatus(x) /\ OnDocs(x)' = OnDocs(x) \ {r} /\ r \in OnDocs(x)
      BY <1>1, <2>4 DEF OnStatus, OnDocs
    <3>2. shown'[x] = Reflected(r, shown[p])
      BY <1>4, <2>0, <2>4
    <3>3. shown'[x].status = shown[x].status
      BY <1>2, <2>4, <3>2, Ops
    <3>4. StatusFollows(x) => StatusFollows(x)'
      BY <1>1, <2>1, <3>1, <3>3 DEF StatusFollows, ToldOfStatus
    <3>5. ASSUME DocsFollow(x), ~Deleted(x) PROVE DocsFollow(x)'
      <4>1. ASSUME NEW d \in Doc
            PROVE  \/ d \in filed'[x].docs <=> d \in shown'[x].docs
                   \/ \E s \in OnDocs(x)' : s.doc = d
        <5>1. CASE d = r.doc
          BY <1>1, <1>2, <2>4, <3>1, <3>2, <3>5, <5>1, Ops DEF DocsFollow
        <5>2. CASE d # r.doc
          <6>1. d \in shown'[x].docs <=> d \in shown[x].docs
            BY <1>2, <2>4, <3>2, <5>2, Ops
          <6> QED
            BY <1>1, <3>1, <3>5, <5>2, <6>1 DEF DocsFollow
        <5> QED
          BY <5>1, <5>2
      <4> QED
        BY <1>1, <2>1, <3>1, <3>5, <4>1 DEF DocsFollow
    <3> QED
      BY <2>1, <3>4, <3>5 DEF DocsFollow
  <2> QED
    BY <1>1, <2>2, <2>3, <2>4
<1>7. opened' # Away => opened # Away
  BY <1>1
<1> QED
  BY <1>1, <1>3, <1>5, <1>6, <1>7

LEMMA NextAuthorInv == ASSUME AuthorInv, [AuthorNext]_authorVars PROVE AuthorInv'
<1> USE DEF AuthorInv
<1>1. ASSUME NEW p \in Paper, Committee(p) PROVE AuthorInv'
  <2>1. /\ UNCHANGED <<late, viewer, opened, shown, asked, pressed, clicks, crossed, raced>>
        /\ meddled' = meddled \cup {p}
    BY <1>1 DEF Committee
  <2>2. PICK to \in SubmissionStatus : filed' = [filed EXCEPT ![p].status = to]
    BY <1>1 DEF Committee
  <2>3. [filed[p] EXCEPT !.status = to] \in Row
    BY DEF AuthorTyped, Row
  <2>4. filed' \in [Paper -> Row] /\ \A x \in Paper \ {p} : filed'[x] = filed[x]
    BY <2>2, <2>3 DEF AuthorTyped
  <2>5. AuthorTyped' /\ Numbered' /\ AcceptedFits'
    BY <2>1, <2>4 DEF AuthorTyped, Numbered, AcceptedFits
  <2>6. \A x \in Paper : OneKind(x) /\ UploadsFresh(x) => OneKind(x)' /\ UploadsFresh(x)'
    BY <2>1 DEF OneKind, UploadsFresh
  <2>7. \A x \in Paper \ {p} : /\ StatusFollows(x) => StatusFollows(x)'
                               /\ DocsFollow(x) => DocsFollow(x)'
    <3>1. \A x \in Paper : /\ OnStatus(x)' = OnStatus(x) /\ OnDocs(x)' = OnDocs(x)
                           /\ Accepted(x)' = Accepted(x) /\ (Deleted(x)' <=> Deleted(x))
      BY <2>1 DEF OnStatus, OnDocs, Accepted, Deleted
    <3> QED
      BY <2>1, <2>4, <3>1 DEF StatusFollows, ToldOfStatus, DocsFollow
  <2> QED
    BY <2>1, <2>5, <2>6, <2>7
<1>2. CASE UNCHANGED authorVars
  BY <1>2 DEF authorVars, AuthorTyped, Numbered, AcceptedFits, OneKind, UploadsFresh,
     StatusFollows, ToldOfStatus, DocsFollow, OnStatus, OnDocs, Accepted, Deleted
<1> QED
  BY <1>1, <1>2, ClickKeeps, LoadKeeps, CommitKeeps, HearKeeps DEF AuthorNext, Place

\* While nothing is on its way the page holds the row the server holds.
LEMMA QuietIsCurrent ==
    ASSUME AuthorInv, opened # Away, NEW p \in Paper, Quiet(p), p \notin meddled
    PROVE  /\ p \notin raced => shown[p].status = filed[p].status
           /\ p \notin crossed => shown[p].docs = filed[p].docs
<1>1. OnStatus(p) = {} /\ OnDocs(p) = {} /\ ~Deleted(p)
  BY DEF Quiet, OnStatus, OnDocs, Deleted
<1>2. shown[p].docs \subseteq Doc /\ filed[p].docs \subseteq Doc
  BY DEF AuthorInv, AuthorTyped, Row
<1> QED
  BY <1>1, <1>2 DEF AuthorInv, StatusFollows, DocsFollow

\* Nobody's requests are refused on a copy that is current, but for the five cases.
LEMMA OffersAreGranted == ASSUME AuthorInv PROVE OfferedIsGranted
<1> SUFFICES ASSUME NEW p \in Paper, NEW d \in Doc, NEW op \in AuthorOp, NEW place \in Place,
                    Quiet(p), p \notin meddled \cup crossed \cup raced,
                    Offered(place, op, p, d)
             PROVE  \/ Grants(op, p, d)
                    \/ op = "submit" /\ (late # {} \/ shown[p].docs = {})
                    \/ op = "detach" /\ shown[p] = [status |-> "submitted", docs |-> {d}]
                    \/ op \in DOMAIN Moves /\ viewer.role # "submitter"
                    \/ op = "delete" /\ p \in decided
  BY DEF OfferedIsGranted, Place
<1>1. opened # Away
  BY AuthorAssumption DEF Offered, Dashboard, Away
<1>2. shown[p] = filed[p] /\ filed[p] \in Row
  BY <1>1, QuietIsCurrent DEF AuthorInv, AuthorTyped, Row
<1>3. CASE op \in DOMAIN Moves /\ viewer.role = "submitter"
  <2>1. \/ op = "submit" /\ filed[p].status = "draft"
        \/ op \in {"confirm", "withdraw"} /\ filed[p].status = "notified"
    BY <1>2, <1>3, Ops DEF Offered, ListOffers, ButtonsOffer, BannerOffers, CardOffers
  <2>2. CASE op = "submit" /\ late = {} /\ shown[p].docs # {}
    <3>1. Validate("draft", "submitted", "submitter", late) = "accepted"
      BY <2>2 DEF Validate, TRANSITIONS, EdgeRoles
    <3>2. filed[p].status = "draft"
      BY <2>1, <2>2
    <3> QED
      BY <1>2, <1>3, <2>2, <3>1, <3>2, Ops DEF Grants
  <2>3. CASE op \in {"confirm", "withdraw"}
    <3>1. /\ Validate("notified", "confirmed", "submitter", late) = "accepted"
          /\ Validate("notified", "withdrawn", "submitter", late) = "accepted"
      BY DEF Validate, TRANSITIONS, EdgeRoles, EdgeDeadlines
    <3> QED
      BY <1>2, <1>3, <2>1, <2>3, <3>1, Ops DEF Grants
  <2> QED
    BY <1>2, <2>1, <2>2, <2>3
<1>4. CASE op = "delete"
  BY <1>2, <1>4, Ops DEF Offered, ListOffers, ButtonsOffer, BannerOffers, CardOffers, Grants,
     Nothing
<1>5. CASE op = "replacement"
  BY <1>2, <1>5, Ops DEF Offered, ListOffers, ButtonsOffer, BannerOffers, CardOffers, Grants
<1>6. CASE op = "attach"
  BY <1>2, <1>6, Ops DEF Offered, ListOffers, ButtonsOffer, BannerOffers, CardOffers, CanUpload,
     Grants, Attachable
<1>7. CASE op = "detach"
  <2>1. CanUpload(filed[p]) /\ d \in filed[p].docs
    BY <1>2, <1>7, Ops DEF Offered, ListOffers, ButtonsOffer, BannerOffers, CardOffers
  <2>2. Grants(op, p, d) \/ (filed[p].status = "submitted" /\ filed[p].docs = {d})
    BY <1>7, <2>1, Ops DEF Grants, Attachable, CanUpload
  <2>3. filed[p].status = "submitted" /\ filed[p].docs = {d}
        => filed[p] = [status |-> "submitted", docs |-> {d}]
    BY <1>2 DEF Row
  <2> QED
    BY <1>2, <1>7, <2>2, <2>3
<1> QED
  BY <1>3, <1>4, <1>5, <1>6, <1>7, Ops

THEOREM FilingIsShown == AuthorSpec => [](FilingSettles /\ OfferedIsGranted)
<1>1. AuthorInit => AuthorInv
  BY InitAuthorInv
<1>2. AuthorInv /\ [AuthorNext]_authorVars => AuthorInv'
  BY NextAuthorInv
<1>3. AuthorInv => FilingSettles /\ OfferedIsGranted
  BY QuietIsCurrent, OffersAreGranted DEF FilingSettles, StatusSettles, DocumentsSettle
<1> QED
  BY <1>1, <1>2, <1>3, PTL DEF AuthorSpec

-------------------------------------------------------------------------------
(* The wizard that uploads many documents. *)

Entry == [file : UploadFile, status : {"pending", "uploading", "done", "error"}]

UploadTyped ==
    /\ entries \in Seq(Entry) /\ batch \in Seq(Entry)
    /\ index \in Nat \ {0} /\ recorded \in [UploadFile -> Nat]
    /\ submitting \in BOOLEAN

\* A file is listed once.
ListedOnce == \A i, j \in 1 .. Len(entries) : entries[i].file = entries[j].file => i = j

\* The loop's list and the page's are about the same files, entry by entry, and
\* no entry ahead of the loop has been ticked.
Aligned ==
    (submitting /\ ~drifted) =>
        /\ Len(batch) <= Len(entries)
        /\ \A i \in 1 .. Len(batch) :
              /\ entries[i].file = batch[i].file
              /\ i >= index /\ entries[i].status = "done" => batch[i].status = "done"

\* What the loop knows: what was ticked at the press was recorded, and, if all
\* went well, what it has passed.
LoopKnows ==
    (submitting /\ ~drifted) =>
        \A i \in 1 .. Len(batch) :
            batch[i].status = "done" \/ (allOk /\ i < index) => recorded[batch[i].file] > 0

\* A recorded file whose answer came is ticked.
RecordedIsTicked ==
    ~drifted => \A f \in UploadFile :
                    recorded[f] > 0 /\ f \notin lostAnswers
                    => \E i \in 1 .. Len(entries) :
                          entries[i].file = f /\ entries[i].status = "done"

\* What keeps the button of an open page alive.
SomeLeft ==
    /\ batch = <<>> => ~submitting /\ \A i \in 1 .. Len(entries) : entries[i].status = "pending"
    /\ drifted => dropped
    /\ (~dropped /\ submitting /\ ~allOk) =>
          \E i \in 1 .. Len(entries) : i < index /\ entries[i].status # "done"
    /\ (~dropped /\ ~submitting /\ OnPage /\ batch # <<>>) =>
          \E i \in 1 .. Len(entries) : entries[i].status # "done"

UploadInv ==
    /\ UploadTyped /\ ListedOnce /\ Aligned /\ LoopKnows /\ RecordedIsTicked /\ SomeLeft
    /\ TickedIsRecorded /\ SubmittedIsRecorded /\ RecordedOnce

LEMMA DomainOfList == ASSUME UploadTyped
                      PROVE  /\ DOMAIN entries = 1 .. Len(entries) /\ Len(entries) \in Nat
                             /\ Len(batch) \in Nat
                             /\ \A i \in 1 .. Len(entries) : entries[i] \in Entry
                             /\ \A i \in 1 .. Len(batch) : batch[i] \in Entry
  BY LenProperties, ElementOfSeq DEF UploadTyped

\* Something to upload, counted.
LEMMA SomePending ==
    ASSUME UploadTyped
    PROVE  PendingCount > 0 <=> \E i \in 1 .. Len(entries) : entries[i].status # "done"
<1> DEFINE P == {i \in DOMAIN entries : entries[i].status # "done"}
<1>1. P \subseteq 1 .. Len(entries) /\ Len(entries) \in Nat
  BY DomainOfList
<1>2. IsFiniteSet(1 .. Len(entries))
  BY <1>1, FS_Interval
<1>3. IsFiniteSet(P) /\ Cardinality(P) \in Nat
  BY <1>1, <1>2, FS_Subset, FS_CardinalityType
<1>4. Cardinality(P) = 0 <=> P = {}
  BY <1>3, FS_EmptySet
<1>5. PendingCount = Cardinality(P)
  BY DEF PendingCount
<1>6. P = {} <=> ~\E i \in 1 .. Len(entries) : entries[i].status # "done"
  BY DomainOfList
<1> HIDE DEF P
<1> QED
  BY <1>3, <1>4, <1>5, <1>6

\* The entries after one is taken off the list.
LEMMA RemovedEntry ==
    ASSUME NEW S, NEW s \in Seq(S), NEW i \in 1 .. Len(s)
    PROVE  /\ RemoveAt(s, i) \in Seq(S) /\ Len(RemoveAt(s, i)) = Len(s) - 1
           /\ \A j \in 1 .. Len(s) - 1 : RemoveAt(s, i)[j] = IF j < i THEN s[j] ELSE s[j + 1]
<1> DEFINE a == SubSeq(s, 1, i - 1)
           b == SubSeq(s, i + 1, Len(s))
<1>1. Len(s) \in Nat /\ \A j \in 1 .. Len(s) : s[j] \in S
  BY LenProperties, ElementOfSeq
<1>2. a \in Seq(S) /\ Len(a) = i - 1 /\ \A j \in 1 .. i - 1 : a[j] = s[j]
  <2>1. \A j \in 1 .. i - 1 : s[j] \in S
    BY <1>1
  <2>2. i - 1 \in Int /\ 1 \in Int
    BY <1>1
  <2>3. a \in Seq(S) /\ Len(a) = (IF 1 <= i - 1 THEN (i - 1) - 1 + 1 ELSE 0)
        /\ \A j \in 1 .. (i - 1) - 1 + 1 : a[j] = s[1 + j - 1]
    BY <2>1, <2>2, SubSeqProperties
  <2> HIDE DEF a
  <2> QED
    BY <1>1, <2>3
<1>3. b \in Seq(S) /\ Len(b) = Len(s) - i /\ \A j \in 1 .. Len(s) - i : b[j] = s[j + i]
  <2>1. \A j \in i + 1 .. Len(s) : s[j] \in S
    BY <1>1
  <2>2. i + 1 \in Int /\ Len(s) \in Int
    BY <1>1
  <2>3. b \in Seq(S) /\ Len(b) = (IF i + 1 <= Len(s) THEN Len(s) - (i + 1) + 1 ELSE 0)
        /\ \A j \in 1 .. Len(s) - (i + 1) + 1 : b[j] = s[(i + 1) + j - 1]
    BY <2>1, <2>2, SubSeqProperties
  <2> HIDE DEF a, b
  <2>4. Len(b) = Len(s) - i /\ Len(s) - (i + 1) + 1 = Len(s) - i
    BY <1>1, <2>3
  <2>5. ASSUME NEW j \in 1 .. Len(s) - i PROVE b[j] = s[j + i]
    <3>1. (i + 1) + j - 1 = j + i
      BY <1>1
    <3> QED
      BY <2>3, <2>4, <2>5, <3>1
  <2> QED
    BY <2>3, <2>4, <2>5
<1>4. RemoveAt(s, i) = a \o b
  BY DEF RemoveAt
<1> HIDE DEF a, b
<1>5. /\ a \o b \in Seq(S) /\ Len(a \o b) = Len(a) + Len(b)
      /\ \A j \in 1 .. Len(a) + Len(b) : (a \o b)[j] = IF j <= Len(a) THEN a[j] ELSE b[j - Len(a)]
  BY <1>2, <1>3, ConcatProperties
<1> QED
  BY <1>1, <1>2, <1>3, <1>4, <1>5

\* updateStatus() changes the status of one entry, or of none.
LEMMA Updated ==
    ASSUME UploadTyped, NEW i \in Nat, NEW status \in {"uploading", "done", "error"},
           UpdateStatus(i, status)
    PROVE  /\ entries' \in Seq(Entry) /\ Len(entries') = Len(entries)
           /\ \A j \in 1 .. Len(entries) :
                 /\ entries'[j].file = entries[j].file
                 /\ entries'[j].status = IF j = i THEN status ELSE entries[j].status
<1>1. entries' = [j \in 1 .. Len(entries) |->
                     IF j = i THEN [entries[j] EXCEPT !.status = status] ELSE entries[j]]
  BY DomainOfList DEF UpdateStatus
<1>2. \A j \in 1 .. Len(entries) : /\ entries[j] \in Entry
                                   /\ [entries[j] EXCEPT !.status = status] \in Entry
                                   /\ [entries[j] EXCEPT !.status = status].file = entries[j].file
                                   /\ [entries[j] EXCEPT !.status = status].status = status
  BY DomainOfList DEF Entry
<1>3. \A j \in 1 .. Len(entries) : entries'[j] \in Entry
  BY <1>1, <1>2
<1>4. entries' \in [1 .. Len(entries) -> Entry]
  BY <1>1, <1>3
<1>5. entries' \in Seq(Entry) /\ Len(entries') = Len(entries)
  BY <1>4, DomainOfList
<1> QED
  BY <1>1, <1>2, <1>5

LEMMA InitUploadInv == ASSUME UploadInit PROVE UploadInv
<1>1. UploadTyped
  <2>1. entries \in Seq(Entry) /\ batch \in Seq(Entry)
    BY EmptySeq DEF UploadInit
  <2>2. index \in Nat \ {0} /\ recorded \in [UploadFile -> Nat]
    BY DEF UploadInit
  <2>3. submitting \in BOOLEAN
    BY DEF UploadInit
  <2> QED
    BY <2>1, <2>2, <2>3 DEF UploadTyped
<1>2. Len(entries) = 0 /\ Len(batch) = 0
  BY EmptySeq DEF UploadInit
<1> QED
  BY <1>1, <1>2, DomainOfList DEF UploadInit, UploadInv, ListedOnce, Aligned, LoopKnows,
     RecordedIsTicked, SomeLeft, TickedIsRecorded, SubmittedIsRecorded, RecordedOnce

LEMMA AddFileKeeps == ASSUME UploadInv, NEW f \in UploadFile, AddFile(f) PROVE UploadInv'
<1> USE DEF UploadInv
<1> DEFINE e == FileEntry(f, "pending")
<1>1. /\ OnPage /\ f \notin FilesOf(entries) /\ entries' = Append(entries, e)
      /\ UNCHANGED <<submitting, batch, index, allOk, submission, recorded, uploadsTried,
                     lostAnswers, drifted, dropped, told>>
  BY DEF AddFile
<1>2. e \in Entry /\ e.file = f /\ e.status = "pending"
  BY DEF Entry, FileEntry
<1> HIDE DEF e
<1>3. /\ entries' \in Seq(Entry) /\ Len(entries') = Len(entries) + 1 /\ Len(entries) \in Nat
      /\ \A i \in 1 .. Len(entries) : entries'[i] = entries[i]
      /\ entries'[Len(entries) + 1] = e
  BY <1>1, <1>2, AppendProperties, LenProperties DEF UploadTyped
<1>4. UploadTyped'
  BY <1>1, <1>3 DEF UploadTyped
<1>5. ListedOnce'
  BY <1>1, <1>2, <1>3 DEF ListedOnce, FilesOf
<1>6. Aligned'
  BY <1>1, <1>3, DomainOfList DEF Aligned
<1>7. LoopKnows'
  BY <1>1 DEF LoopKnows
<1>8. RecordedIsTicked'
  BY <1>1, <1>3 DEF RecordedIsTicked
<1>9. SomeLeft'
  BY <1>1, <1>2, <1>3 DEF SomeLeft, OnPage
<1>10. TickedIsRecorded'
  <2>1. DOMAIN entries' = 1 .. Len(entries')
    BY <1>4, DomainOfList
  <2> QED
    BY <1>1, <1>2, <1>3, <2>1, DomainOfList DEF TickedIsRecorded
<1>11. SubmittedIsRecorded' /\ RecordedOnce'
  BY <1>1 DEF SubmittedIsRecorded, RecordedOnce, FilesOf
<1> QED
  BY <1>4, <1>5, <1>6, <1>7, <1>8, <1>9, <1>10, <1>11

LEMMA RemoveEntryKeeps == ASSUME UploadInv, NEW i \in DOMAIN entries, RemoveEntry(i) PROVE UploadInv'
<1> USE DEF UploadInv
<1>1. /\ OnPage /\ entries[i].status \notin {"uploading", "done"}
      /\ entries' = RemoveAt(entries, i)
      /\ drifted' = (drifted \/ submitting)
      /\ dropped' = (dropped \/ batch # <<>>)
      /\ UNCHANGED <<submitting, batch, index, allOk, submission, recorded, uploadsTried,
                     lostAnswers, told>>
  BY DEF RemoveEntry
<1>2. i \in 1 .. Len(entries) /\ Len(entries) \in Nat
  BY DomainOfList
<1>3. /\ entries' \in Seq(Entry) /\ Len(entries') = Len(entries) - 1
      /\ \A j \in 1 .. Len(entries) - 1 :
            entries'[j] = IF j < i THEN entries[j] ELSE entries[j + 1]
  BY <1>1, <1>2, RemovedEntry DEF UploadTyped
<1>4. UploadTyped'
  BY <1>1, <1>3 DEF UploadTyped
<1>5. ListedOnce'
  <2> SUFFICES ASSUME NEW j \in 1 .. Len(entries'), NEW k \in 1 .. Len(entries'),
                      entries'[j].file = entries'[k].file
               PROVE  j = k
    BY DEF ListedOnce
  <2>1. PICK a \in 1 .. Len(entries) : a = (IF j < i THEN j ELSE j + 1) /\ entries'[j] = entries[a]
    BY <1>2, <1>3
  <2>2. PICK b \in 1 .. Len(entries) : b = (IF k < i THEN k ELSE k + 1) /\ entries'[k] = entries[b]
    BY <1>2, <1>3
  <2>3. a = b
    BY <2>1, <2>2 DEF ListedOnce
  <2> QED
    BY <1>2, <1>3, <2>1, <2>2, <2>3
<1>6. Aligned' /\ LoopKnows'
  BY <1>1 DEF Aligned, LoopKnows, UploadTyped
<1>7. RecordedIsTicked'
  <2> SUFFICES ASSUME ~drifted', NEW f \in UploadFile, recorded[f] > 0, f \notin lostAnswers
               PROVE  \E j \in 1 .. Len(entries') : entries'[j].file = f /\ entries'[j].status = "done"
    BY <1>1 DEF RecordedIsTicked
  <2>1. PICK j \in 1 .. Len(entries) : entries[j].file = f /\ entries[j].status = "done"
    BY <1>1 DEF RecordedIsTicked
  <2>2. CASE j < i
    BY <1>2, <1>3, <2>1, <2>2
  <2>3. CASE j > i
    <3>1. j - 1 \in 1 .. Len(entries) - 1 /\ ~(j - 1 < i) /\ (j - 1) + 1 = j
      BY <1>2, <2>3
    <3> QED
      BY <1>3, <2>1, <3>1
  <2>4. j # i
    BY <1>1, <2>1
  <2> QED
    BY <1>2, <2>2, <2>3, <2>4
<1>8. SomeLeft'
  <2>1. drifted' => dropped'
    BY <1>1 DEF SomeLeft
  <2>2. ~dropped' => batch = <<>>
    BY <1>1
  <2>3. batch = <<>> => ~submitting /\ \A j \in 1 .. Len(entries') : entries'[j].status = "pending"
    BY <1>2, <1>3 DEF SomeLeft
  <2> QED
    BY <1>1, <2>1, <2>2, <2>3 DEF SomeLeft
<1>9. TickedIsRecorded'
  <2>1. DOMAIN entries' = 1 .. Len(entries')
    BY <1>4, DomainOfList
  <2>2. \A j \in 1 .. Len(entries') : \E k \in 1 .. Len(entries) : entries'[j] = entries[k]
    BY <1>2, <1>3
  <2>3. ~drifted' => ~drifted
    BY <1>1
  <2> QED
    <3> SUFFICES ASSUME ~drifted', NEW j \in 1 .. Len(entries'), entries'[j].status = "done"
                 PROVE  recorded'[entries'[j].file] > 0
      BY <2>1 DEF TickedIsRecorded
    <3>1. PICK k \in 1 .. Len(entries) : entries'[j] = entries[k]
      BY <2>2
    <3>2. \A h \in 1 .. Len(entries) : entries[h].status = "done" => recorded[entries[h].file] > 0
      BY <2>3, DomainOfList DEF TickedIsRecorded
    <3> QED
      BY <1>1, <3>1, <3>2
<1>10. SubmittedIsRecorded' /\ RecordedOnce'
  BY <1>1 DEF SubmittedIsRecorded, RecordedOnce, OnPage
<1> QED
  BY <1>4, <1>5, <1>6, <1>7, <1>8, <1>9, <1>10

LEMMA HandleSubmitKeeps == ASSUME UploadInv, HandleSubmit PROVE UploadInv'
<1> USE DEF UploadInv
<1>1. /\ OnPage /\ ~submitting /\ PendingCount > 0
      /\ submitting' = TRUE /\ batch' = entries /\ index' = 1 /\ allOk' = TRUE
      /\ UNCHANGED <<entries, submission, recorded, uploadsTried, lostAnswers, drifted, dropped,
                     told>>
  BY DEF HandleSubmit
<1>2. \E i \in 1 .. Len(entries) : entries[i].status # "done"
  BY <1>1, SomePending
<1>3. UploadTyped'
  <2>1. submitting' \in BOOLEAN
    BY <1>1
  <2> QED
    BY <1>1, <2>1 DEF UploadTyped
<1>4. ListedOnce' /\ Aligned' /\ RecordedIsTicked' /\ TickedIsRecorded' /\ RecordedOnce'
  BY <1>1, DomainOfList DEF ListedOnce, Aligned, RecordedIsTicked, TickedIsRecorded, RecordedOnce
<1>5. LoopKnows'
  BY <1>1, DomainOfList DEF LoopKnows, TickedIsRecorded
<1>6. SomeLeft'
  <2>1. entries # <<>>
    BY <1>2, EmptySeq, DomainOfList
  <2> QED
    BY <1>1, <2>1 DEF SomeLeft
<1>7. SubmittedIsRecorded'
  BY <1>1 DEF SubmittedIsRecorded, OnPage
<1> QED
  BY <1>3, <1>4, <1>5, <1>6, <1>7

LEMMA SkipEntryKeeps == ASSUME UploadInv, SkipEntry PROVE UploadInv'
<1> USE DEF UploadInv
<1>1. /\ submitting /\ index <= Len(batch) /\ batch[index].status = "done" /\ index' = index + 1
      /\ UNCHANGED <<entries, submitting, batch, allOk, submission, recorded, uploadsTried,
                     lostAnswers, drifted, dropped, told>>
  BY DEF SkipEntry, Skipped
<1>2. index \in Nat \ {0} /\ Len(batch) \in Nat
  BY DomainOfList DEF UploadTyped
<1>3. UploadTyped'
  BY <1>1, <1>2 DEF UploadTyped
<1>4. ListedOnce' /\ RecordedIsTicked' /\ TickedIsRecorded' /\ RecordedOnce' /\ SubmittedIsRecorded'
  BY <1>1 DEF ListedOnce, RecordedIsTicked, TickedIsRecorded, RecordedOnce, SubmittedIsRecorded,
     FilesOf
<1>5. Aligned'
  BY <1>1, <1>2 DEF Aligned
<1>6. LoopKnows'
  BY <1>1, <1>2 DEF LoopKnows
<1>7. SomeLeft'
  BY <1>1, <1>2 DEF SomeLeft, OnPage
<1> QED
  BY <1>3, <1>4, <1>5, <1>6, <1>7

LEMMA StartUploadKeeps == ASSUME UploadInv, StartUpload PROVE UploadInv'
<1> USE DEF UploadInv
<1>1. /\ submitting /\ index <= Len(batch) /\ batch[index].status # "done"
      /\ UpdateStatus(index, "uploading")
      /\ UNCHANGED <<submitting, batch, index, allOk, submission, recorded, uploadsTried,
                     lostAnswers, drifted, dropped, told>>
  BY DEF StartUpload, Skipped
<1>2. index \in Nat \ {0} /\ Len(batch) \in Nat
  BY DomainOfList DEF UploadTyped
<1>3. /\ entries' \in Seq(Entry) /\ Len(entries') = Len(entries)
      /\ \A j \in 1 .. Len(entries) :
            /\ entries'[j].file = entries[j].file
            /\ entries'[j].status = IF j = index THEN "uploading" ELSE entries[j].status
  BY <1>1, <1>2, Updated
<1>4. UploadTyped'
  BY <1>1, <1>3 DEF UploadTyped
<1>5. ListedOnce'
  BY <1>3 DEF ListedOnce
<1>6. Aligned'
  BY <1>1, <1>2, <1>3, DomainOfList DEF Aligned
<1>7. LoopKnows'
  BY <1>1 DEF LoopKnows
<1>8. RecordedIsTicked'
  <2> SUFFICES ASSUME ~drifted, NEW f \in UploadFile, recorded[f] > 0, f \notin lostAnswers
               PROVE  \E j \in 1 .. Len(entries') : entries'[j].file = f /\ entries'[j].status = "done"
    BY <1>1 DEF RecordedIsTicked
  <2>1. PICK j \in 1 .. Len(entries) : entries[j].file = f /\ entries[j].status = "done"
    BY DEF RecordedIsTicked
  <2>2. j # index
    BY <1>1, <1>2, <2>1 DEF Aligned
  <2> QED
    BY <1>3, <2>1, <2>2
<1>9. SomeLeft'
  BY <1>1, <1>2, <1>3, DomainOfList, EmptySeq DEF SomeLeft, OnPage
<1>10. TickedIsRecorded'
  <2>1. DOMAIN entries' = 1 .. Len(entries')
    BY <1>4, DomainOfList
  <2> QED
    BY <1>1, <1>3, <2>1, DomainOfList DEF TickedIsRecorded
<1>11. SubmittedIsRecorded' /\ RecordedOnce'
  BY <1>1 DEF SubmittedIsRecorded, RecordedOnce, FilesOf
<1> QED
  BY <1>4, <1>5, <1>6, <1>7, <1>8, <1>9, <1>10, <1>11


LEMMA FinishUploadKeeps == ASSUME UploadInv, FinishUpload PROVE UploadInv'
<1> USE DEF UploadInv
<1> DEFINE f == batch[index].file
<1>1. /\ submitting /\ index <= Len(batch) /\ batch[index].status # "done"
      /\ index' = index + 1
      /\ UNCHANGED <<submitting, batch, submission, drifted, dropped, told>>
  BY DEF FinishUpload, Skipped
<1>2. /\ index \in Nat \ {0} /\ Len(batch) \in Nat /\ index \in 1 .. Len(batch)
      /\ f \in UploadFile
  BY <1>1, DomainOfList DEF UploadTyped, Entry
<1>3. PICK outcome \in {"done", "error"} :
        /\ UpdateStatus(index, outcome)
        /\ \/ recorded' = [recorded EXCEPT ![f] = recorded[f] + 1]
           \/ recorded' = recorded /\ outcome = "error"
        /\ outcome = "done" => allOk' = allOk /\ lostAnswers' = lostAnswers
        /\ outcome = "error" => /\ allOk' = FALSE
                                /\ \/ lostAnswers' = lostAnswers /\ recorded' = recorded
                                   \/ lostAnswers' = lostAnswers \cup {f}
  BY DEF FinishUpload, Outcome
<1>4. /\ recorded' \in [UploadFile -> Nat]
      /\ \A g \in UploadFile : /\ recorded'[g] >= recorded[g]
                               /\ g # f => recorded'[g] = recorded[g]
      /\ outcome = "done" => recorded'[f] = recorded[f] + 1
      /\ recorded'[f] \in {recorded[f], recorded[f] + 1}
  BY <1>2, <1>3 DEF UploadTyped
<1>5. /\ entries' \in Seq(Entry) /\ Len(entries') = Len(entries)
      /\ \A j \in 1 .. Len(entries) :
            /\ entries'[j].file = entries[j].file
            /\ entries'[j].status = IF j = index THEN outcome ELSE entries[j].status
  BY <1>2, <1>3, Updated
<1>6. ~drifted => /\ index \in 1 .. Len(entries) /\ entries[index].file = f
                  /\ entries[index].status # "done"
  BY <1>1, <1>2, DomainOfList DEF Aligned
<1> HIDE DEF f
<1>7. UploadTyped'
  BY <1>1, <1>2, <1>4, <1>5 DEF UploadTyped
<1>8. ListedOnce'
  BY <1>5 DEF ListedOnce
<1>9. Aligned'
  BY <1>1, <1>2, <1>5, DomainOfList DEF Aligned
<1>10. \A i \in 1 .. Len(batch) : batch[i].file \in UploadFile
  BY DomainOfList DEF Entry
<1>11. LoopKnows'
  <2> SUFFICES ASSUME ~drifted, NEW i \in 1 .. Len(batch),
                      batch[i].status = "done" \/ (allOk' /\ i < index + 1)
               PROVE  recorded'[batch[i].file] > 0
    BY <1>1 DEF LoopKnows
  <2>1. CASE batch[i].status = "done" \/ i < index
    <3>1. allOk' => allOk
      BY <1>3
    <3>2. recorded[batch[i].file] > 0
      BY <1>1, <2>1, <3>1 DEF LoopKnows
    <3>3. recorded[batch[i].file] \in Nat /\ recorded'[batch[i].file] \in Nat
      BY <1>4, <1>10 DEF UploadTyped
    <3> QED
      BY <1>4, <1>10, <3>2, <3>3
  <2>2. CASE i = index /\ allOk'
    <3>1. outcome = "done"
      BY <1>3, <2>2
    <3> QED
      BY <1>2, <1>4, <2>2, <3>1 DEF f, UploadTyped
  <2> QED
    BY <1>2, <2>1, <2>2
<1>12. ~drifted => recorded[f] = 0 \/ f \in lostAnswers
  <2> SUFFICES ASSUME ~drifted, recorded[f] # 0, f \notin lostAnswers PROVE FALSE
    OBVIOUS
  <2>1. PICK i \in 1 .. Len(entries) : entries[i].file = f /\ entries[i].status = "done"
    BY <1>2 DEF RecordedIsTicked, UploadTyped
  <2> QED
    BY <1>6, <2>1 DEF ListedOnce
<1>13. RecordedIsTicked'
  <2> SUFFICES ASSUME ~drifted, NEW g \in UploadFile, recorded'[g] > 0, g \notin lostAnswers'
               PROVE  \E j \in 1 .. Len(entries) : entries'[j].file = g /\ entries'[j].status = "done"
    BY <1>1, <1>5 DEF RecordedIsTicked
  <2>1. CASE g = f /\ outcome = "done"
    BY <1>5, <1>6, <2>1
  <2>2. CASE g # f \/ outcome = "error"
    <3>1. recorded[g] > 0 /\ g \notin lostAnswers
      BY <1>3, <1>4, <2>2
    <3>2. PICK j \in 1 .. Len(entries) : entries[j].file = g /\ entries[j].status = "done"
      BY <3>1 DEF RecordedIsTicked
    <3>3. j # index
      BY <1>6, <3>2
    <3> QED
      BY <1>5, <3>2, <3>3
  <2> QED
    BY <1>3, <2>1, <2>2
<1>14. SomeLeft'
  <2>1. drifted => dropped
    BY DEF SomeLeft
  <2>2. batch # <<>>
    BY <1>1 DEF SomeLeft
  <2>3. ~dropped /\ ~allOk' => \E i \in 1 .. Len(entries') : i < index + 1 /\ entries'[i].status # "done"
    <3> SUFFICES ASSUME ~dropped, ~allOk'
                 PROVE  \E i \in 1 .. Len(entries') : i < index + 1 /\ entries'[i].status # "done"
      OBVIOUS
    <3>1. CASE outcome = "error"
      BY <1>2, <1>5, <1>6, <2>1, <3>1
    <3>2. CASE outcome = "done"
      <4>1. ~allOk
        BY <1>3, <3>2
      <4>2. PICK i \in 1 .. Len(entries) : i < index /\ entries[i].status # "done"
        BY <1>1, <4>1 DEF SomeLeft
      <4> QED
        BY <1>2, <1>5, <4>2
    <3> QED
      BY <1>3, <3>1, <3>2
  <2> QED
    BY <1>1, <2>1, <2>2, <2>3 DEF SomeLeft
<1>15. TickedIsRecorded'
  <2>1. DOMAIN entries' = 1 .. Len(entries')
    BY <1>7, DomainOfList
  <2> SUFFICES ASSUME ~drifted, NEW i \in 1 .. Len(entries), entries'[i].status = "done"
               PROVE  recorded'[entries'[i].file] > 0
    BY <1>1, <1>5, <2>1 DEF TickedIsRecorded
  <2>2. entries[i].file \in UploadFile /\ entries'[i].file = entries[i].file
    BY <1>5, DomainOfList DEF Entry
  <2>3. CASE i = index
    BY <1>2, <1>3, <1>4, <1>5, <1>6, <2>2, <2>3 DEF UploadTyped
  <2>4. CASE i # index
    <3>1. recorded[entries[i].file] > 0
      BY <1>5, <2>4, DomainOfList DEF TickedIsRecorded
    <3>2. recorded[entries[i].file] \in Nat /\ recorded'[entries[i].file] \in Nat
      BY <1>4, <2>2 DEF UploadTyped
    <3> QED
      BY <1>4, <2>2, <3>1, <3>2
  <2> QED
    BY <2>3, <2>4
<1>16. SubmittedIsRecorded'
  <2> SUFFICES ASSUME told = "submitted", ~drifted, NEW g \in FilesOf(batch)
               PROVE  recorded'[g] > 0
    BY <1>1 DEF SubmittedIsRecorded, FilesOf
  <2>1. recorded[g] > 0 /\ g \in UploadFile
    BY <1>10 DEF SubmittedIsRecorded, FilesOf
  <2>2. recorded[g] \in Nat /\ recorded'[g] \in Nat
    BY <1>4, <2>1 DEF UploadTyped
  <2> QED
    BY <1>4, <2>1, <2>2
<1>17. RecordedOnce'
  <2> SUFFICES ASSUME ~drifted, NEW g \in UploadFile, recorded'[g] > 1 PROVE g \in lostAnswers'
    BY <1>1 DEF RecordedOnce
  <2>1. CASE g = f
    BY <1>3, <1>4, <1>12, <2>1
  <2>2. CASE g # f
    BY <1>3, <1>4, <2>2 DEF RecordedOnce
  <2> QED
    BY <2>1, <2>2
<1> QED
  BY <1>7, <1>8, <1>9, <1>11, <1>13, <1>14, <1>15, <1>16, <1>17

LEMMA EndOfBatchKeeps == ASSUME UploadInv, EndOfBatch PROVE UploadInv'
<1> USE DEF UploadInv
<1>1. /\ submitting /\ index > Len(batch) /\ submitting' = FALSE
      /\ told' = IF allOk THEN "submitted" ELSE "failed"
      /\ UNCHANGED <<entries, batch, index, allOk, recorded, uploadsTried, lostAnswers, drifted,
                     dropped>>
  BY DEF EndOfBatch, MaySubmit
<1>2. UploadTyped'
  <2>1. submitting' \in BOOLEAN
    BY <1>1
  <2> QED
    BY <1>1, <2>1 DEF UploadTyped
<1>3. ListedOnce' /\ RecordedIsTicked' /\ TickedIsRecorded' /\ RecordedOnce' /\ Aligned' /\ LoopKnows'
  BY <1>1 DEF ListedOnce, RecordedIsTicked, TickedIsRecorded, RecordedOnce, Aligned, LoopKnows
<1>4. SomeLeft'
  BY <1>1 DEF SomeLeft, OnPage
<1>5. SubmittedIsRecorded'
  BY <1>1, DomainOfList DEF SubmittedIsRecorded, FilesOf, LoopKnows, UploadTyped
<1> QED
  BY <1>2, <1>3, <1>4, <1>5

LEMMA NextUploadInv == ASSUME UploadInv, [UploadNext]_uploadVars PROVE UploadInv'
<1>1. CASE UNCHANGED uploadVars
  BY <1>1 DEF UploadInv, uploadVars, UploadTyped, ListedOnce, Aligned, LoopKnows, RecordedIsTicked,
     SomeLeft, OnPage, TickedIsRecorded, SubmittedIsRecorded, RecordedOnce, FilesOf
<1> QED
  BY <1>1, AddFileKeeps, RemoveEntryKeeps, HandleSubmitKeeps, SkipEntryKeeps, StartUploadKeeps,
     FinishUploadKeeps, EndOfBatchKeeps DEF UploadNext

THEOREM UploadsAreTold == UploadSpec => []UploadsAreRecorded
<1>1. UploadInit => UploadInv
  BY InitUploadInv
<1>2. UploadInv /\ [UploadNext]_uploadVars => UploadInv'
  BY NextUploadInv
<1>3. UploadInv => UploadsAreRecorded
  <2> SUFFICES ASSUME UploadInv PROVE NeverStuck
    BY DEF UploadInv, UploadsAreRecorded
  <2> SUFFICES ASSUME ~dropped, OnPage, ~submitting, entries # <<>> PROVE PendingCount > 0
    BY DEF NeverStuck
  <2>1. Len(entries) \in Nat \ {0}
    BY EmptySeq DEF UploadInv, UploadTyped
  <2>2. \E i \in 1 .. Len(entries) : entries[i].status # "done"
    <3>1. CASE batch = <<>>
      <4>1. entries[1].status = "pending" /\ 1 \in 1 .. Len(entries)
        BY <2>1, <3>1 DEF UploadInv, SomeLeft
      <4> QED
        BY <4>1
    <3>2. CASE batch # <<>>
      BY <3>2 DEF UploadInv, SomeLeft
    <3> QED
      BY <3>1, <3>2
  <2> QED
    BY <2>2, SomePending DEF UploadInv
<1> QED
  BY <1>1, <1>2, <1>3, PTL DEF UploadSpec

-------------------------------------------------------------------------------
(* The form of an abstract. *)

\* A new form knows no null.
NewHasNoNull ==
    /\ formErrors \subseteq {"texts", "track", "coauthors", "document"}
    /\ formPage = "new" => fields.track # "null" /\ "track" \notin formErrors

\* A form that can still create a draft has made none that it knows of; once it
\* has, it is left for the draft.
OneDraftYet ==
    /\ drafts \in Nat /\ lostCreates \in Nat
    /\ saving \in {"idle", "create", "update", "upload"}
    /\ saving \in {"create", "upload"} => formPage = "new" /\ ~formLeft
    /\ saving = "update" => formPage # "new"
    /\ formPage = "new" /\ ~formLeft /\ saving # "upload" => drafts <= lostCreates
    /\ drafts <= 1 + lostCreates

\* A form has a value in each of its fields.
FieldsGiven ==
    /\ fields = [texts |-> fields.texts, track |-> fields.track, coauthors |-> fields.coauthors]
    /\ draftRow = [texts |-> draftRow.texts, track |-> draftRow.track, coauthors |-> draftRow.coauthors]

FormInv == NewHasNoNull /\ OneDraftYet /\ FieldsGiven

LEMMA InitFormInv == ASSUME FormInit PROVE FormInv
<1>1. draftRow \in {NewRow} \cup Rows /\ (formPage = "new" => draftRow = NewRow) /\ fields = draftRow
      /\ formErrors = {}
  BY DEF FormInit
<1>2. NewHasNoNull
  BY <1>1 DEF NewHasNoNull, NewRow
<1>3. OneDraftYet
  BY DEF FormInit, OneDraftYet
<1>4. FieldsGiven
  BY <1>1 DEF FieldsGiven, NewRow, Rows
<1> QED
  BY <1>2, <1>3, <1>4 DEF FormInv

\* The faults the resolver can find.
LEMMA FaultyKnown ==
    /\ Faulty(fields) \subseteq {"texts", "track", "coauthors", "document"}
    /\ "track" \in Faulty(fields) => fields.track = "null"
  BY DEF Faulty

LEMMA NextFormInv == ASSUME FormInv, [FormNext]_formVars PROVE FormInv'
<1> USE DEF FormInv
<1>1. ASSUME NEW f, Edit(f), f = [texts |-> f.texts, track |-> f.track, coauthors |-> f.coauthors],
             f.track = "null" => fields.track = "null"
      PROVE  FormInv'
  <2>1. /\ fields' = f
        /\ UNCHANGED <<formPage, tracksKnown, draftRow, docFile, formErrors, saving, formLeft, drafts,
                       lostCreates, sent>>
    BY <1>1 DEF Edit
  <2> QED
    BY <1>1, <2>1 DEF NewHasNoNull, OneDraftYet, FieldsGiven
<1>2. ASSUME NEW ok \in BOOLEAN, Write(ok) PROVE FormInv'
  BY <1>1, <1>2 DEF Write, FieldsGiven
<1>3. ASSUME NEW t \in Track, SetTrack(t) PROVE FormInv'
  BY <1>1, <1>3 DEF SetTrack, FieldsGiven
<1>4. ASSUME NEW c \in CoAuthor, AddCoAuthor(c) PROVE FormInv'
  BY <1>1, <1>4 DEF AddCoAuthor, FieldsGiven
<1>5. ASSUME NEW e \in Email, RemoveCoAuthor(e) PROVE FormInv'
  <2> DEFINE left == {c \in fields.coauthors : c.email # e}
  <2>1. Edit([fields EXCEPT !.coauthors = left])
    BY <1>5 DEF RemoveCoAuthor
  <2> HIDE DEF left
  <2> QED
    BY <1>1, <2>1 DEF FieldsGiven
<1>6. CASE HandleDocumentChange
  BY <1>6 DEF HandleDocumentChange, NewHasNoNull, OneDraftYet, FieldsGiven
<1>7. CASE Press
  <2>1. /\ ~formLeft /\ saving = "idle" /\ formErrors' = Faulty(fields)
        /\ saving' \in {"idle", IF formPage = "new" THEN "create" ELSE "update"}
        /\ UNCHANGED <<formPage, draftRow, fields, formLeft, drafts, lostCreates>>
    BY <1>7 DEF Press
  <2> QED
    BY <2>1, FaultyKnown DEF NewHasNoNull, OneDraftYet, FieldsGiven
<1>8. CASE Saved
  <2>1. /\ saving \in {"create", "update"} /\ draftRow' = Stored(draftRow, sent)
        /\ drafts' = drafts + (IF saving = "create" THEN 1 ELSE 0)
        /\ UNCHANGED <<formPage, fields, formErrors>>
    BY <1>8 DEF Saved
  <2>2. FieldsGiven'
    BY <2>1 DEF FieldsGiven, Stored
  <2>3. OneDraftYet'
    <3>1. \/ /\ saving = "create" /\ saving' = "upload" /\ ~formLeft' /\ lostCreates' = lostCreates
          \/ /\ saving = "update" /\ saving' = "idle" /\ lostCreates' = lostCreates
          \/ /\ saving' = "idle" /\ formLeft' = formLeft
             /\ lostCreates' = lostCreates + (IF saving = "create" THEN 1 ELSE 0)
      BY <1>8 DEF Saved
    <3> QED
      BY <2>1, <3>1 DEF OneDraftYet
  <2> QED
    BY <2>1, <2>2, <2>3 DEF NewHasNoNull
<1>9. CASE NotSaved
  BY <1>9 DEF NotSaved, NewHasNoNull, OneDraftYet, FieldsGiven
<1>10. ASSUME NEW ok \in BOOLEAN, Uploaded(ok) PROVE FormInv'
  <2>1. /\ saving = "upload" /\ saving' = "idle" /\ formLeft' = TRUE
        /\ UNCHANGED <<formPage, draftRow, fields, formErrors, drafts, lostCreates>>
    BY <1>10 DEF Uploaded, LeaveAnyway
  <2> QED
    BY <2>1 DEF NewHasNoNull, OneDraftYet, FieldsGiven
<1>11. CASE EditDraft
  BY <1>11 DEF EditDraft, NewHasNoNull, OneDraftYet, FieldsGiven
<1>12. CASE UNCHANGED formVars
  BY <1>12 DEF formVars, NewHasNoNull, OneDraftYet, FieldsGiven
<1> QED
  BY <1>2, <1>3, <1>4, <1>5, <1>6, <1>7, <1>8, <1>9, <1>10, <1>11, <1>12 DEF FormNext

THEOREM FormsAnswer == FormSpec => []FormAnswers
<1>1. FormInit => FormInv
  BY InitFormInv
<1>2. FormInv /\ [FormNext]_formVars => FormInv'
  BY NextFormInv
<1>3. FormInv => FormAnswers
  BY DEF FormInv, FormAnswers, RefusalIsShown, OneDraftPerForm, NewHasNoNull, OneDraftYet,
     WithMessage
<1> QED
  BY <1>1, <1>2, <1>3, PTL DEF FormSpec

-------------------------------------------------------------------------------
(* The two stores: rows and objects agree but for the named causes, and a     *)
(* submitted abstract keeps a document.                                       *)

UploadStage == {"no", "url", "put", "checked", "done", "abandoned"}

FilesTyped ==
    /\ stageOf \in [Manuscript -> {"unborn", "draft", "submitted", "under_review", "gone"}]
    /\ attachments \subseteq Upload /\ objects \subseteq Upload
    /\ uploadAt \in [Upload -> UploadStage]
    /\ deletionAt \in [Upload -> {"no", "checked", "erased"}]
    /\ submits \subseteq Manuscript
    /\ removals \subseteq [of : Manuscript, keys : SUBSET Upload]
    /\ cleaning \subseteq Upload /\ listing \subseteq Upload
    /\ resetting \in {"no", "emptied", "listed", "over"}
    /\ overlapped \subseteq Manuscript /\ excused \subseteq Upload

\* A key has a row, a deletion or a clean-up only after its upload, and an object
\* only after the browser put it there.
UploadComesFirst ==
    \A k \in Upload :
        /\ uploadAt[k] # "done" => k \notin attachments /\ deletionAt[k] = "no" /\ k \notin cleaning
        /\ uploadAt[k] \in {"no", "url"} => k \notin objects
        /\ uploadAt[k] = "abandoned" => k \in excused

\* A deletion has the keys of its submission, apart from those added meanwhile.
RemovalsCapture ==
    \A r \in removals :
        /\ \A k \in r.keys : ManuscriptOf[k] = r.of /\ uploadAt[k] = "done"
        /\ KeysOf(r.of) \subseteq r.keys \cup excused

\* Before a reset.
StoresInStep ==
    resetting = "no" =>
        \A k \in Upload \ excused :
            /\ uploadAt[k] \in {"put", "checked"} => k \in objects
            /\ (uploadAt[k] = "done" /\ deletionAt[k] # "erased" /\ k \notin cleaning)
                  => (k \in attachments <=> k \in objects)

\* From the start of a reset on.
ResetEmpties ==
    resetting # "no" =>
        /\ attachments \subseteq excused
        /\ \A k \in objects \ excused :
              \/ resetting = "emptied"
              \/ resetting = "listed" /\ k \in listing
              \/ uploadAt[k] \in {"put", "checked"}

ErasedHaveNoObject == \A k \in Upload \ excused : deletionAt[k] = "erased" => k \notin objects
CleanedHaveNoRow == cleaning \cap attachments = {}

StoresInv ==
    /\ FilesTyped /\ UploadComesFirst /\ RemovalsCapture /\ StoresInStep /\ ResetEmpties
    /\ ErasedHaveNoObject /\ CleanedHaveNoRow

\* What a request that checked a document or a submission can rely on, if it is
\* the only one.
Deleting(m) == {k \in Upload : ManuscriptOf[k] = m /\ deletionAt[k] # "no"}
Reviewable(m) == stageOf[m] \in {"submitted", "under_review"}

OneAtATime ==
    \A m \in Manuscript \ overlapped :
        /\ \A j, k \in Deleting(m) : j = k
        /\ m \in submits => Deleting(m) = {}
CheckedHolds ==
    \A m \in Manuscript \ overlapped :
        /\ m \in submits => stageOf[m] # "unborn" /\ (stageOf[m] # "gone" => KeysOf(m) # {})
        /\ Reviewable(m) => \A k \in Deleting(m) : KeysOf(m) \ {k} # {}

DocumentsInv == OneAtATime /\ CheckedHolds /\ SubmittedHasDocument

FilesInv == StoresInv /\ DocumentsInv

--------------------------------------------------------------------------------
\* Every step keeps the stores together: what takes a row or an object away does
\* so on behalf of a request that is busy with the key, or names its cause.
LEMMA StoresStep ==
    FileAssumption /\ StoresInv /\ [FilesNext]_fileVars => StoresInv'
  <1> SUFFICES ASSUME FileAssumption, StoresInv, [FilesNext]_fileVars
               PROVE  StoresInv'
    OBVIOUS
  <1> USE DEF StoresInv, FilesTyped, UploadComesFirst, RemovalsCapture, StoresInStep,
              ResetEmpties, ErasedHaveNoObject, CleanedHaveNoRow, FileAssumption,
              UploadStage, stores, requests, reset, causes
  <1>1. ASSUME NEW m \in Manuscript, CreateManuscript(m) PROVE  StoresInv'
    BY <1>1 DEF CreateManuscript, KeysOf
  <1>2. ASSUME NEW m \in Manuscript, OpenReview(m) PROVE  StoresInv'
    BY <1>2 DEF OpenReview, KeysOf
  <1>3. ASSUME NEW m \in Manuscript, CheckSubmit(m) PROVE  StoresInv'
    BY <1>3 DEF CheckSubmit, KeysOf, Busy
  <1>4. ASSUME NEW m \in Manuscript, CommitSubmit(m) PROVE  StoresInv'
    BY <1>4 DEF CommitSubmit, KeysOf
  <1>5. ASSUME NEW m \in Manuscript, NEW admin \in BOOLEAN, LoadManuscript(m, admin)
        PROVE  StoresInv'
    BY <1>5 DEF LoadManuscript, Editable, Captured, KeysOf
  <1>6. ASSUME NEW k \in Upload, RequestUploadUrl(k) PROVE  StoresInv'
    BY <1>6 DEF RequestUploadUrl, UploadStep, KeysOf
  <1>7. ASSUME NEW k \in Upload, PutObject(k) PROVE  StoresInv'
    BY <1>7 DEF PutObject, UploadStep, KeysOf
  <1>8. ASSUME NEW k \in Upload, ConfirmUploadRow(k) PROVE  StoresInv'
    BY <1>8 DEF ConfirmUploadRow, UploadStep, KeysOf
  <1>9. ASSUME NEW k \in Upload, AbandonUpload(k) PROVE  StoresInv'
    BY <1>9 DEF AbandonUpload, KeysOf
  <1>10. ASSUME NEW k \in Upload, DeleteRow(k) PROVE  StoresInv'
    BY <1>10 DEF DeleteRow, KeysOf
  <1>11. ASSUME NEW k \in Upload, DeletionDies(k) PROVE  StoresInv'
    BY <1>11 DEF DeletionDies, KeysOf
  <1>12. ASSUME NEW k \in Upload, CleanUp(k) PROVE  StoresInv'
    BY <1>12 DEF CleanUp, KeysOf
  <1>13. ASSUME NEW k \in Upload, NEW admin \in BOOLEAN, CheckUpload(k, admin)
         PROVE  StoresInv'
    BY <1>13 DEF CheckUpload, UploadStep, Editable, KeysOf
  <1>14. ASSUME NEW k \in Upload, NEW admin \in BOOLEAN, CheckDeletion(k, admin)
         PROVE  StoresInv'
    BY <1>14 DEF CheckDeletion, Editable, KeepsDocument, OthersRemain, KeysOf, Busy
  <1>15. ASSUME NEW k \in Upload, NEW refused \in BOOLEAN, DeleteObject(k, refused)
         PROVE  StoresInv'
    BY <1>15 DEF DeleteObject, KeysOf
  <1>16. ASSUME NEW r \in removals, DeleteManuscript(r) PROVE  StoresInv'
    BY <1>16 DEF DeleteManuscript, KeysOf
  <1>17. CASE CleanUpDies
    BY <1>17 DEF CleanUpDies, KeysOf
  <1>18. CASE ResetRows
    BY <1>18 DEF ResetRows, KeysOf
  <1>19. CASE ListObjects
    BY <1>19 DEF ListObjects, KeysOf
  <1>20. CASE DeleteObjects
    BY <1>20 DEF DeleteObjects, KeysOf
  <1>21. CASE ResetDies
    BY <1>21 DEF ResetDies, KeysOf
  <1>22. CASE UNCHANGED fileVars
    BY <1>22 DEF fileVars, KeysOf
  <1> HIDE DEF StoresInv, FilesTyped, UploadStage, stores, requests, reset, causes
  <1> QED
    BY <1>1, <1>2, <1>3, <1>4, <1>5, <1>6, <1>7, <1>8, <1>9, <1>10, <1>11, <1>12,
       <1>13, <1>14, <1>15, <1>16, <1>17, <1>18, <1>19, <1>20, <1>21, <1>22 DEF
       FilesNext

\* Nothing takes the last document of a submitted abstract away, but what
\* overlapped with another request.
LEMMA DocumentsStep ==
    FileAssumption /\ StoresInv /\ DocumentsInv /\ [FilesNext]_fileVars => DocumentsInv'
  <1> SUFFICES ASSUME FileAssumption, StoresInv /\ DocumentsInv, [FilesNext]_fileVars
               PROVE  DocumentsInv'
    OBVIOUS
  <1> USE DEF DocumentsInv, OneAtATime, CheckedHolds, SubmittedHasDocument, Deleting,
              Reviewable, StoresInv, FilesTyped, FileAssumption, UploadStage, stores,
              requests, reset, causes
  <1>1. ASSUME NEW m \in Manuscript, CreateManuscript(m) PROVE  DocumentsInv'
    BY <1>1 DEF CreateManuscript, KeysOf
  <1>2. ASSUME NEW m \in Manuscript, OpenReview(m) PROVE  DocumentsInv'
    BY <1>2 DEF OpenReview, KeysOf
  <1>3. ASSUME NEW m \in Manuscript, CheckSubmit(m) PROVE  DocumentsInv'
    BY <1>3 DEF CheckSubmit, KeysOf, Busy
  <1>4. ASSUME NEW m \in Manuscript, CommitSubmit(m) PROVE  DocumentsInv'
    BY <1>4 DEF CommitSubmit, KeysOf
  <1>5. ASSUME NEW m \in Manuscript, NEW admin \in BOOLEAN, LoadManuscript(m, admin)
        PROVE  DocumentsInv'
    BY <1>5 DEF LoadManuscript, Editable, Captured, KeysOf
  <1>6. ASSUME NEW k \in Upload, RequestUploadUrl(k) PROVE  DocumentsInv'
    BY <1>6 DEF RequestUploadUrl, UploadStep, KeysOf
  <1>7. ASSUME NEW k \in Upload, PutObject(k) PROVE  DocumentsInv'
    BY <1>7 DEF PutObject, UploadStep, KeysOf
  <1>8. ASSUME NEW k \in Upload, ConfirmUploadRow(k) PROVE  DocumentsInv'
    BY <1>8 DEF ConfirmUploadRow, UploadStep, KeysOf
  <1>9. ASSUME NEW k \in Upload, AbandonUpload(k) PROVE  DocumentsInv'
    BY <1>9 DEF AbandonUpload, KeysOf
  <1>10. ASSUME NEW k \in Upload, DeleteRow(k) PROVE  DocumentsInv'
    BY <1>10 DEF DeleteRow, KeysOf
  <1>11. ASSUME NEW k \in Upload, DeletionDies(k) PROVE  DocumentsInv'
    BY <1>11 DEF DeletionDies, KeysOf
  <1>12. ASSUME NEW k \in Upload, CleanUp(k) PROVE  DocumentsInv'
    BY <1>12 DEF CleanUp, KeysOf
  <1>13. ASSUME NEW k \in Upload, NEW admin \in BOOLEAN, CheckUpload(k, admin)
         PROVE  DocumentsInv'
    BY <1>13 DEF CheckUpload, UploadStep, Editable, KeysOf
  <1>14. ASSUME NEW k \in Upload, NEW admin \in BOOLEAN, CheckDeletion(k, admin)
         PROVE  DocumentsInv'
    BY <1>14 DEF CheckDeletion, Editable, KeepsDocument, OthersRemain, KeysOf, Busy
  <1>15. ASSUME NEW k \in Upload, NEW refused \in BOOLEAN, DeleteObject(k, refused)
         PROVE  DocumentsInv'
    BY <1>15 DEF DeleteObject, KeysOf
  <1>16. ASSUME NEW r \in removals, DeleteManuscript(r) PROVE  DocumentsInv'
    BY <1>16 DEF DeleteManuscript, KeysOf
  <1>17. CASE CleanUpDies
    BY <1>17 DEF CleanUpDies, KeysOf
  <1>18. CASE ResetRows
    BY <1>18 DEF ResetRows, KeysOf
  <1>19. CASE ListObjects
    BY <1>19 DEF ListObjects, KeysOf
  <1>20. CASE DeleteObjects
    BY <1>20 DEF DeleteObjects, KeysOf
  <1>21. CASE ResetDies
    BY <1>21 DEF ResetDies, KeysOf
  <1>22. CASE UNCHANGED fileVars
    BY <1>22 DEF fileVars, KeysOf
  <1> HIDE DEF DocumentsInv, StoresInv, UploadStage, stores, requests, reset, causes
  <1> QED
    BY <1>1, <1>2, <1>3, <1>4, <1>5, <1>6, <1>7, <1>8, <1>9, <1>10, <1>11, <1>12,
       <1>13, <1>14, <1>15, <1>16, <1>17, <1>18, <1>19, <1>20, <1>21, <1>22 DEF
       FilesNext

LEMMA InitFilesInv == FileAssumption /\ FilesInit => FilesInv
  <1> SUFFICES ASSUME FileAssumption, FilesInit
               PROVE  FilesInv
    OBVIOUS
  <1> USE DEF FileAssumption, FilesInit
  <1>1. StoresInv
    BY DEF StoresInv, FilesTyped, UploadComesFirst, RemovalsCapture, StoresInStep, ResetEmpties,
           ErasedHaveNoObject, CleanedHaveNoRow, UploadStage, KeysOf
  <1>2. DocumentsInv
    BY DEF DocumentsInv, OneAtATime, CheckedHolds, SubmittedHasDocument, Deleting, Reviewable
  <1> QED
    BY <1>1, <1>2 DEF FilesInv

LEMMA FilesConsistent == FilesSpec => []FilesInv
  <1>1. FilesInv /\ [FilesNext]_fileVars => FilesInv'
    BY FileAssumption, StoresStep, DocumentsStep DEF FilesInv
  <1>2. FilesInit => FilesInv
    BY FileAssumption, InitFilesInv
  <1> QED
    BY <1>1, <1>2, PTL DEF FilesSpec

--------------------------------------------------------------------------------
\* A key no request is busy with has a row exactly if it has an object, unless
\* one of the named causes left the two stores apart: for any number of uploads,
\* deletions and resets, interrupted anywhere.
THEOREM StoresAreInStep == FilesSpec => []StoresAgree
  <1>1. FilesInv => StoresAgree
    <2> SUFFICES ASSUME FilesInv, resetting \in {"no", "over"},
                        NEW k \in Upload \ (InHand \cup excused)
                 PROVE  k \in attachments <=> k \in objects
      BY DEF StoresAgree
    <2> USE DEF FilesInv, StoresInv, FilesTyped, UploadComesFirst
    <2>1. /\ k \in Upload /\ k \notin excused /\ k \notin cleaning
          /\ uploadAt[k] \notin {"put", "checked"} /\ deletionAt[k] # "erased"
      BY DEF InHand
    <2>2. CASE resetting = "no"
      BY <2>1, <2>2 DEF StoresInStep, UploadStage
    <2>3. CASE resetting = "over"
      BY <2>1, <2>3 DEF ResetEmpties
    <2> QED
      BY <2>2, <2>3
  <1> QED
    BY <1>1, FilesConsistent, PTL

\* A submitted abstract has a document for its reviewers, however uploads,
\* deletions and submissions of other abstracts are interleaved with its own, if
\* its own did not overlap.
THEOREM DocumentRemains == FilesSpec => []SubmittedHasDocument
  <1>1. FilesInv => SubmittedHasDocument
    BY DEF FilesInv, DocumentsInv
  <1> QED
    BY <1>1, FilesConsistent, PTL

-------------------------------------------------------------------------------
(* The four together. *)

\* The run goes through behaviours of each part's own specification: what is
\* proved of a part holds of the run.
THEOREM DocumentsFollowParts ==
    DocumentsSpec => AuthorSpec /\ UploadSpec /\ FormSpec /\ FilesSpec
<1>1. DocumentsInit => AuthorInit /\ UploadInit /\ FormInit /\ FilesInit
  BY DEF DocumentsInit
<1>2. [DocumentsNext]_<<page, authorVars, uploadVars, formVars, fileVars>>
      => /\ [AuthorNext]_authorVars /\ [UploadNext]_uploadVars
         /\ [FormNext]_formVars /\ [FilesNext]_fileVars
  BY DEF DocumentsNext
<1> QED
  BY <1>1, <1>2, PTL DEF DocumentsSpec, AuthorSpec, UploadSpec, FormSpec, FilesSpec

\* Pages offer what the server grants and settle on what it has, a tick means a
\* recorded file, every press answers, and no submitted abstract loses its last
\* document.
THEOREM DocumentsKeepAll ==
    DocumentsSpec => []( /\ OfferedIsGranted /\ FilingSettles /\ UploadsAreRecorded
                         /\ FormAnswers /\ StoresAgree /\ SubmittedHasDocument )
  BY DocumentsFollowParts, FilingIsShown, UploadsAreTold, FormsAnswer, StoresAreInStep,
     DocumentRemains, PTL

-------------------------------------------------------------------------------
(* The worker that sends the queued mails: EmailWorker. *)

\* A batch is taken from the rows the query returns.
LEMMA OldestIsPart ==
    ASSUME NEW S, NEW n PROVE Oldest(S, n) \subseteq S
  BY DEF Oldest

\* The rank of a new row is a number: there are finitely many rows.
LEMMA RankIsNat == 1 + Cardinality({k \in Job : job[k] # "absent"}) \in Nat
  <1>1. IsFiniteSet({k \in Job : job[k] # "absent"})
    BY WorkerAssumption, FS_Subset DEF WorkerAssumption
  <1>2. Cardinality({k \in Job : job[k] # "absent"}) \in Nat
    BY <1>1, FS_CardinalityType
  <1>3. QED
    BY <1>2

LEMMA InitTypeOK == Init => TypeOK
  BY DEF Init, TypeOK

\* The columns and the batches keep their types.
LEMMA NextTypeOK == TypeOK /\ [Next]_vars => TypeOK'
  <1> SUFFICES ASSUME TypeOK, [Next]_vars PROVE TypeOK'
    OBVIOUS
  <1> USE DEF TypeOK
  <1>1. ASSUME NEW j \in Job, Enqueue(j) PROVE TypeOK'
    BY <1>1, RankIsNat DEF Enqueue
  <1>2. CASE Purge
    BY <1>2 DEF Purge
  <1>3. ASSUME NEW w \in Worker, FetchBatch(w) PROVE TypeOK'
    <2>1. Oldest(Eligible(w), BatchSize) \subseteq Job
      BY OldestIsPart DEF Eligible
    <2>2. QED
      BY <1>3, <2>1 DEF FetchBatch
  <1>4. ASSUME NEW w \in Worker, NEW j \in Job, Sent(w, j) PROVE TypeOK'
    BY <1>4 DEF Sent
  <1>5. ASSUME NEW w \in Worker, NEW j \in Job, NEW accepted \in BOOLEAN,
               SendFailed(w, j, accepted)
        PROVE  TypeOK'
    BY <1>5 DEF SendFailed
  <1>6. ASSUME NEW w \in Worker, CommitBatch(w) PROVE TypeOK'
    BY <1>6 DEF CommitBatch, Release, Recorded, RetryCount
  <1>7. ASSUME NEW w \in Worker, AbortBatch(w) PROVE TypeOK'
    BY <1>7 DEF AbortBatch, Release
  <1>8. CASE UNCHANGED vars
    BY <1>8 DEF vars
  <1>9. QED
    BY <1>1, <1>2, <1>3, <1>4, <1>5, <1>6, <1>7, <1>8 DEF Next, Attempt

\* Committed columns, open batches and counters have their types.
THEOREM TypeCorrect == Spec => []TypeOK
  BY InitTypeOK, NextTypeOK, PTL DEF Spec

-----------------------------------------------------------------------------
(* The books of the queue. *)

LEMMA InitWorkerInv == Init => WorkerInv
  BY DEF Init, WorkerInv, HeldOnce, ResultsOfBatch, CopiesAccounted, AbsentIsBlank,
         PendingIsRetried

\* Locks: a row is in one batch at most and stays pending while it is.
LEMMA NextHeldOnce ==
    ASSUME TypeOK, HeldOnce, [Next]_vars PROVE HeldOnce'
  <1> USE DEF TypeOK, HeldOnce
  <1>1. ASSUME NEW j \in Job, Enqueue(j) PROVE HeldOnce'
    BY <1>1 DEF Enqueue
  <1>2. CASE Purge
    BY <1>2 DEF Purge
  <1>3. ASSUME NEW w \in Worker, FetchBatch(w) PROVE HeldOnce'
    <2>1. \A j \in Oldest(Eligible(w), BatchSize) :
             j \in Job /\ job[j] = "pending" /\ \A v \in Worker : j \notin holding[v]
      BY OldestIsPart DEF Eligible
    <2>2. QED
      BY <1>3, <2>1 DEF FetchBatch
  <1>4. ASSUME NEW w \in Worker, NEW j \in Job, Sent(w, j) PROVE HeldOnce'
    BY <1>4 DEF Sent
  <1>5. ASSUME NEW w \in Worker, NEW j \in Job, NEW accepted \in BOOLEAN,
               SendFailed(w, j, accepted)
        PROVE  HeldOnce'
    BY <1>5 DEF SendFailed
  <1>6. ASSUME NEW w \in Worker, CommitBatch(w) PROVE HeldOnce'
    <2>1. \A j \in Job : j \notin holding[w] => job'[j] = job[j]
      BY <1>6 DEF CommitBatch, Recorded, Of
    <2>2. QED
      BY <1>6, <2>1 DEF CommitBatch, Release
  <1>7. ASSUME NEW w \in Worker, AbortBatch(w) PROVE HeldOnce'
    BY <1>7 DEF AbortBatch, Release
  <1>8. CASE UNCHANGED vars
    BY <1>8 DEF vars
  <1>9. QED
    BY <1>1, <1>2, <1>3, <1>4, <1>5, <1>6, <1>7, <1>8 DEF Next, Attempt

\* A batch has results for the rows it attempted and no others.
LEMMA NextResultsOfBatch ==
    ASSUME TypeOK, HeldOnce, ResultsOfBatch, [Next]_vars PROVE ResultsOfBatch'
  <1> USE DEF TypeOK, HeldOnce, ResultsOfBatch
  <1>1. ASSUME UNCHANGED <<holding, todo, result>> PROVE ResultsOfBatch'
    BY <1>1
  <1>2. ASSUME NEW w \in Worker, FetchBatch(w) PROVE ResultsOfBatch'
    BY <1>2 DEF FetchBatch
  <1>3. ASSUME NEW w \in Worker, NEW j \in Job, NEW r,
               j \in NextJob(w), todo' = [todo EXCEPT ![w] = @ \ {j}],
               result' = [result EXCEPT ![w][j] = r], UNCHANGED holding
        PROVE  ResultsOfBatch'
    <2>1. j \in todo[w]
      BY <1>3, OldestIsPart DEF NextJob
    <2>2. QED
      BY <1>3, <2>1
  <1>4. ASSUME NEW w \in Worker, Release(w) PROVE ResultsOfBatch'
    BY <1>4 DEF Release
  <1>5. CASE Next
    BY <1>1, <1>2, <1>3, <1>4, <1>5
    DEF Next, Attempt, Enqueue, Purge, Sent, SendFailed, CommitBatch, AbortBatch
  <1>6. QED
    BY <1>1, <1>5 DEF vars

LEMMA NextCopiesAccounted ==
    ASSUME TypeOK, HeldOnce, ResultsOfBatch, CopiesAccounted, [Next]_vars
    PROVE  CopiesAccounted'
  <1> USE DEF TypeOK
  <1> DEFINE Taken(j) == job[j] = "sent" \/ \E w \in Worker : result[w][j] = "sent"
  <1>0. SUFFICES ASSUME NEW k \in Job
                 PROVE  copies'[k] = IF Taken(k)' THEN doubts'[k] + 1 ELSE doubts'[k]
    BY DEF CopiesAccounted
  <1> DEFINE Goal == copies'[k] = IF Taken(k)' THEN doubts'[k] + 1 ELSE doubts'[k]
  <1>a. copies[k] = IF Taken(k) THEN doubts[k] + 1 ELSE doubts[k]
    BY DEF CopiesAccounted
  <1>1. ASSUME NEW j \in Job, Enqueue(j) PROVE Goal
    BY <1>a, <1>1 DEF Enqueue
  <1>2. CASE Purge
    BY <1>2 DEF Purge, ResultsOfBatch
  <1>3. ASSUME NEW w \in Worker, FetchBatch(w) PROVE Goal
    BY <1>a, <1>3 DEF FetchBatch
  <1>4. ASSUME NEW w \in Worker, NEW j \in Job, j \in NextJob(w)
        PROVE  ~Taken(j) /\ \A v \in Worker : result[v][j] = "none"
    <2>1. j \in todo[w]
      BY <1>4, OldestIsPart DEF NextJob
    <2>2. QED
      BY <2>1 DEF HeldOnce, ResultsOfBatch
  <1>5. ASSUME NEW w \in Worker, NEW j \in Job, Sent(w, j) PROVE Goal
    <2>1. CASE k = j
      BY <1>a, <1>4, <1>5, <2>1 DEF Sent
    <2>2. CASE k # j
      <3>1. Taken(k)' <=> Taken(k)
        BY <1>5, <2>2 DEF Sent
      <3>2. QED
        BY <1>a, <1>5, <2>2, <3>1 DEF Sent
    <2>3. QED
      BY <2>1, <2>2
  <1>6. ASSUME NEW w \in Worker, NEW j \in Job, NEW accepted \in BOOLEAN,
               SendFailed(w, j, accepted)
        PROVE  Goal
    <2>1. Taken(k)' <=> Taken(k)
      BY <1>4, <1>6 DEF SendFailed
    <2>2. QED
      BY <1>a, <1>6, <2>1 DEF SendFailed
  <1>7. ASSUME NEW w \in Worker, CommitBatch(w) PROVE Goal
    <2>1. Taken(k)' <=> Taken(k)
      <3>1. CASE k \in Of(w, "sent")
        BY <1>7, <3>1 DEF CommitBatch, Recorded, Of
      <3>2. CASE k \notin Of(w, "sent")
        <4>1. result[w][k] # "sent"
          BY <3>2 DEF ResultsOfBatch, Of
        <4>2. job'[k] = "sent" <=> job[k] = "sent"
          BY <1>7, <3>2 DEF CommitBatch, Recorded, Of, HeldOnce
        <4>3. (\E v \in Worker : result'[v][k] = "sent")
                 <=> (\E v \in Worker : result[v][k] = "sent")
          BY <1>7, <4>1 DEF CommitBatch, Release
        <4>4. QED
          BY <4>2, <4>3
      <3>3. QED
        BY <3>1, <3>2
    <2>2. QED
      BY <1>a, <1>7, <2>1 DEF CommitBatch
  <1>8. ASSUME NEW w \in Worker, AbortBatch(w) PROVE Goal
    <2>1. CASE k \in Of(w, "sent")
      <3>1. Taken(k) /\ ~Taken(k)'
        BY <1>8, <2>1 DEF AbortBatch, Release, Of, HeldOnce, ResultsOfBatch
      <3>2. QED
        BY <1>a, <1>8, <2>1, <3>1 DEF AbortBatch
    <2>2. CASE k \notin Of(w, "sent")
      <3>1. result[w][k] # "sent"
        BY <2>2 DEF ResultsOfBatch, Of
      <3>2. Taken(k)' <=> Taken(k)
        BY <1>8, <3>1 DEF AbortBatch, Release
      <3>3. QED
        BY <1>a, <1>8, <2>2, <3>2 DEF AbortBatch
    <2>3. QED
      BY <2>1, <2>2
  <1>9. CASE UNCHANGED vars
    BY <1>a, <1>9 DEF vars
  <1>10. QED
    BY <1>1, <1>2, <1>3, <1>5, <1>6, <1>7, <1>8, <1>9 DEF Next, Attempt

LEMMA NextRows ==
    ASSUME TypeOK, HeldOnce, AbsentIsBlank, PendingIsRetried, [Next]_vars
    PROVE  AbsentIsBlank' /\ PendingIsRetried'
  <1> USE WorkerAssumption DEF TypeOK, WorkerAssumption, AbsentIsBlank, PendingIsRetried
  <1>1. ASSUME NEW j \in Job, Enqueue(j) PROVE AbsentIsBlank' /\ PendingIsRetried'
    BY <1>1 DEF Enqueue
  <1>2. CASE Purge
    BY <1>2 DEF Purge
  <1>3. ASSUME NEW w \in Worker, NEW j \in Job, j \in NextJob(w),
               UNCHANGED <<job, retries>>,
               copies' = copies \/ copies' = [copies EXCEPT ![j] = @ + 1]
        PROVE  AbsentIsBlank' /\ PendingIsRetried'
    <2>1. job[j] = "pending"
      BY <1>3, OldestIsPart DEF NextJob, HeldOnce
    <2>2. QED
      BY <1>3, <2>1
  <1>4. ASSUME NEW w \in Worker, CommitBatch(w)
        PROVE  AbsentIsBlank' /\ PendingIsRetried'
    <2> SUFFICES ASSUME NEW j \in Job
                 PROVE  /\ job'[j] = "absent" => retries'[j] = 0 /\ copies'[j] = 0
                        /\ job'[j] = "pending" => retries'[j] < MAX_RETRIES
                        /\ job'[j] = "failed" => retries'[j] = MAX_RETRIES
      OBVIOUS
    <2>1. job'[j] = Recorded(w, j) /\ retries'[j] = RetryCount(w, j) /\ copies' = copies
      BY <1>4 DEF CommitBatch
    <2>2. CASE j \in holding[w]
      <3>1. job[j] = "pending" /\ retries[j] < MAX_RETRIES
        BY <2>2 DEF HeldOnce
      <3>2. CASE result[w][j] = "sent"
        BY <2>1, <2>2, <3>1, <3>2 DEF Recorded, Of
      <3>3. CASE result[w][j] = "error"
        <4>1. j \in Of(w, "error") /\ j \notin Of(w, "sent")
          BY <2>2, <3>3 DEF Of
        <4>2. retries'[j] = retries[j] + 1
          BY <2>1, <4>1 DEF RetryCount
        <4>3. job'[j] = IF retries[j] + 1 >= MAX_RETRIES THEN "failed" ELSE "pending"
          BY <2>1, <3>1, <4>1 DEF Recorded, RetryCount, Exhausted
        <4>4. retries[j] \in Nat /\ MAX_RETRIES \in Nat
          OBVIOUS
        <4>5. job'[j] = "pending" => retries'[j] < MAX_RETRIES
          BY <4>2, <4>3, <4>4
        <4>6. job'[j] = "failed" => retries'[j] = MAX_RETRIES
          BY <3>1, <4>2, <4>3, <4>4
        <4>7. job'[j] # "absent"
          BY <4>3
        <4>8. QED
          BY <4>5, <4>6, <4>7
      <3>4. CASE result[w][j] = "none"
        BY <2>1, <2>2, <3>1, <3>4 DEF Recorded, RetryCount, Of
      <3>5. QED
        BY <3>2, <3>3, <3>4
    <2>3. CASE j \notin holding[w]
      BY <2>1, <2>3 DEF Recorded, RetryCount, Of
    <2>4. QED
      BY <2>2, <2>3
  <1>5. ASSUME UNCHANGED <<job, retries, copies>>
        PROVE  AbsentIsBlank' /\ PendingIsRetried'
    BY <1>5
  <1>6. CASE Next
    BY <1>1, <1>2, <1>3, <1>4, <1>5, <1>6
    DEF Next, Attempt, FetchBatch, AbortBatch, Sent, SendFailed
  <1>7. QED
    BY <1>5, <1>6 DEF vars

\* The inductive invariant: every accepted message is accounted for.
THEOREM QueueConsistent == Spec => [](TypeOK /\ WorkerInv)
  <1>1. TypeOK /\ WorkerInv /\ [Next]_vars => WorkerInv'
    BY NextHeldOnce, NextResultsOfBatch, NextCopiesAccounted, NextRows DEF WorkerInv
  <1>2. QED
    BY <1>1, InitTypeOK, NextTypeOK, InitWorkerInv, PTL DEF Spec

\* A second copy of an e-mail has a cause outside the worker: a lost answer or
\* a batch that was rolled back.
THEOREM DuplicatesAreExplained == Spec => []DuplicatesExplained
  <1>1. TypeOK /\ WorkerInv => DuplicatesExplained
    BY DEF TypeOK, WorkerInv, CopiesAccounted, DuplicatesExplained
  <1>2. QED
    BY <1>1, QueueConsistent, PTL

\* Pending jobs have attempts left and jobs given up have none.
THEOREM PendingAreRetried == Spec => []PendingIsRetried
  BY QueueConsistent, PTL DEF WorkerInv

-----------------------------------------------------------------------------
(* Refinement. *)

LEMMA NextDelivery ==
    ASSUME TypeOK, WorkerInv, [Next]_vars, NEW k \in Job
    PROVE  [Contract(k)!Next]_<<job[k], copies[k]>>
  <1> USE DEF TypeOK
  <1> DEFINE Allowed ==
        \/ job[k] = "absent" /\ job'[k] = "pending" /\ copies'[k] = 0
        \/ job[k] = "pending" /\ job'[k] = "pending" /\ copies'[k] = copies[k] + 1
        \/ job[k] = "pending" /\ copies[k] > 0 /\ job'[k] = "sent" /\ copies'[k] = copies[k]
        \/ job[k] = "pending" /\ job'[k] = "failed" /\ copies'[k] = copies[k]
        \/ job'[k] = "absent" /\ copies'[k] = 0
        \/ job'[k] = job[k] /\ copies'[k] = copies[k]
  <1>0. SUFFICES Allowed
    BY DEF Contract!Next, Contract!Queue, Contract!Deliver, Contract!MarkSent,
           Contract!GiveUp, Contract!Purge
  <1>1. ASSUME NEW j \in Job, Enqueue(j) PROVE Allowed
    BY <1>1 DEF Enqueue, WorkerInv, AbsentIsBlank
  <1>2. CASE Purge
    BY <1>2 DEF Purge
  <1>3. ASSUME NEW w \in Worker, NEW j \in Job, j \in NextJob(w), UNCHANGED job,
               copies' = copies \/ copies' = [copies EXCEPT ![j] = @ + 1]
        PROVE  Allowed
    <2>1. job[j] = "pending"
      BY <1>3, OldestIsPart DEF NextJob, WorkerInv, HeldOnce
    <2>2. QED
      BY <1>3, <2>1
  <1>4. ASSUME NEW w \in Worker, CommitBatch(w) PROVE Allowed
    <2>1. job'[k] = Recorded(w, k) /\ copies' = copies
      BY <1>4 DEF CommitBatch
    <2>2. CASE k \in Of(w, "sent")
      <3>1. job[k] = "pending"
        BY <2>2 DEF Of, WorkerInv, HeldOnce
      <3>2. copies[k] = doubts[k] + 1
        BY <2>2 DEF Of, WorkerInv, CopiesAccounted
      <3>3. QED
        BY <2>1, <2>2, <3>1, <3>2 DEF Recorded
    <2>3. CASE k \in Of(w, "error")
      BY <2>1, <2>3 DEF Of, Recorded, WorkerInv, HeldOnce
    <2>4. CASE k \notin Of(w, "sent") /\ k \notin Of(w, "error")
      BY <2>1, <2>4 DEF Recorded
    <2>5. QED
      BY <2>2, <2>3, <2>4
  <1>5. ASSUME UNCHANGED <<job, copies>> PROVE Allowed
    BY <1>5
  <1>6. CASE Next
    BY <1>1, <1>2, <1>3, <1>4, <1>5, <1>6
    DEF Next, Attempt, FetchBatch, AbortBatch, Sent, SendFailed
  <1>7. QED
    BY <1>5, <1>6 DEF vars

\* The worker implements the delivery contract of every job: delivered at least
\* once before it is marked sent, never again after it is settled.
THEOREM DeliveryIsKept == Spec => DeliveryKept
  <1>1. Init => \A j \in Job : Contract(j)!Init
    BY DEF Init, Contract!Init
  <1>2. TypeOK /\ WorkerInv /\ [Next]_vars =>
          [\A j \in Job : [Contract(j)!Next]_<<job[j], copies[j]>>]_vars
    BY NextDelivery
  <1>3. QED
    BY <1>1, <1>2, QueueConsistent, PTL DEF Spec, DeliveryKept
===============================================================================
