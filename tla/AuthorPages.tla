------------------------------ MODULE AuthorPages ------------------------------
(***************************************************************************)
(* The pages an author follows an abstract on: the dashboard with all of   *)
(* them, and the page of one with its action buttons, the banner of a      *)
(* draft and the card of its documents.  A chair or an administrator sees  *)
(* the same action buttons on their own page of the abstract.              *)
(*                                                                         *)
(* A page shows copies.  A request is checked by the server some time      *)
(* after the click, on the row it loads, committed some time after that    *)
(* and answered later still; no lock is taken, and the answers of requests *)
(* that overlap come in any order.                                         *)
(***************************************************************************)
EXTENDS Naturals, AbstractStateMachine

CONSTANTS
    Paper,      \* the abstracts of the author
    Doc,        \* their documents, attached or at hand
    MaxClicks   \* requests sent from one page

ASSUME AuthorAssumption == {"dashboard", "away"} \cap Paper = {}

VARIABLES
    filed,      \* the rows of the server
    decided,    \* the abstracts a row of decisions refers to
    late,       \* the deadlines that have passed
    viewer,     \* the role of the user, and whether the abstracts are theirs
    opened,     \* the page: Dashboard, an abstract, or Away
    shown,      \* what the page holds of each abstract
    asked,      \* the requests on their way
    pressed,    \* loading, submitting, submittingId, uploading and deleting
    clicks,
    meddled,    \* abstracts changed by somebody else, or behind an error message
    crossed,    \* abstracts whose documents changed while a status did
    raced       \* abstracts given a status over another one than was checked

authorVars == <<filed, decided, late, viewer, opened, shown, asked, pressed, clicks, meddled,
                crossed, raced>>

Dashboard == "dashboard"
Away == "away"
Nothing == "nothing"

\* A row of submissions with its attachments; a deleted row has no status.
Row == [status : SubmissionStatus \cup {Nothing}, docs : SUBSET Doc]

Moves == [submit |-> "submitted", confirm |-> "confirmed", withdraw |-> "withdrawn"]
DocOps == {"attach", "detach"}
AuthorOp == DOMAIN Moves \cup DocOps \cup {"delete", "replacement"}

\* What each control sets while its request is on its way.
Label(place, op, p, d) ==
    CASE place = "list" -> [slot |-> "submittingId", value |-> p]
      [] place = "banner" -> [slot |-> "submitting", value |-> "yes"]
      [] op = "attach" -> [slot |-> "uploading", value |-> "yes"]
      [] op = "detach" -> [slot |-> "deleting", value |-> d]
      [] op \in DOMAIN Moves -> [slot |-> "loading", value |-> Moves[op]]
      [] op = "replacement" -> [slot |-> "loading", value |-> "reset to confirmed"]
      [] OTHER -> [slot |-> "loading", value |-> "delete"]

\* What it compares that with: the buttons of ActionButtons use their own key.
Watched(place, op, p, d) ==
    IF place = "buttons" THEN [slot |-> "loading", value |-> op] ELSE Label(place, op, p, d)

Enabled(place, op, p, d) ==
    LET w == Watched(place, op, p, d) IN pressed[w.slot] # w.value

UploadInReview(row) == row.status \in {"draft", "submitted", "under_review"}
CanUpload(row) == row.status \in {"draft", "submitted"}

\* The controls for the copy a page holds: on the dashboard, in ActionButtons,
\* in the banner of a draft, and on the card of documents.
ListOffers(op, row) == op = "submit" /\ row.status = "draft"

ButtonsOffer(op, row) ==
    \/ (viewer.owner \/ viewer.role = "admin") /\
         \/ op \in {"submit", "delete"} /\ row.status = "draft"
         \/ op \in {"confirm", "withdraw"} /\ row.status = "notified"
    \/ viewer.role \in ChairRoles /\ op = "replacement" /\ row.status = "files_submitted"

BannerOffers(op, row) == op = "submit" /\ row.status = "draft" /\ row.docs # {}

CardOffers(op, row, d) ==
    /\ CanUpload(row)
    /\ \/ op = "attach" /\ d \notin row.docs
       \/ op = "detach" /\ d \in row.docs

Offered(place, op, p, d) ==
    \/ place = "list" /\ opened = Dashboard /\ ListOffers(op, shown[p])
    \/ place = "buttons" /\ opened = p /\ ButtonsOffer(op, shown[p])
    \/ viewer.role = "submitter" /\ opened = p /\
         \/ place = "banner" /\ BannerOffers(op, shown[p])
         \/ place = "card" /\ CardOffers(op, shown[p], d)

\* The server's rule for documents.
Attachable(row) == row.status \in {"draft", "submitted"}

\* Whether the server accepts a request, for the row it loads.  An abstract with a
\* decision cannot be deleted: its row would leave the decision without one.
Grants(op, p, d) ==
    LET row == filed[p] IN
    CASE op \in DOMAIN Moves ->
            /\ op = "submit" => row.docs # {}
            /\ Validate(row.status, Moves[op], viewer.role, late) = "accepted"
      [] op = "replacement" -> viewer.role \in ChairRoles /\ row.status = "files_submitted"
      [] op = "delete" ->
            /\ row.status # Nothing /\ p \notin decided
            /\ row.status = "draft" \/ viewer.role = "admin"
      [] op = "attach" -> Attachable(row)
      [] OTHER ->
            /\ d \in row.docs /\ Attachable(row)
            /\ row.status = "submitted" => row.docs # {d}

\* What a request changes in a row: in the table, and in its handler's copy.
Carried(op, row, d) ==
    CASE op \in DOMAIN Moves -> [row EXCEPT !.status = Moves[op]]
      [] op = "replacement" -> [row EXCEPT !.status = "confirmed"]
      [] op = "delete" -> [status |-> Nothing, docs |-> {}]
      [] op = "attach" -> [row EXCEPT !.docs = @ \cup {d}]
      [] OTHER -> [row EXCEPT !.docs = @ \ {d}]

\* The page has loaded its abstracts.
AuthorInit ==
    /\ late \in SUBSET {"submission_deadline"}
    /\ viewer \in [role : {"submitter"}, owner : {TRUE}]
                  \cup [role : ChairRoles, owner : BOOLEAN]
    /\ opened \in Paper \cup (IF viewer.role = "submitter" THEN {Dashboard} ELSE {})
    /\ filed \in [Paper -> {r \in Row : r.docs = {} => r.status \in {Nothing, "draft"}}]
    /\ \A p \in Paper : /\ opened \notin {p, Dashboard} <=> filed[p].status = Nothing
                       /\ filed[p].status = Nothing => filed[p].docs = {}
    /\ decided \in SUBSET {p \in Paper : filed[p].status # Nothing}
    /\ shown = filed
    /\ asked = {}
    /\ pressed = [slot \in {"loading", "submitting", "submittingId", "uploading", "deleting"}
                    |-> Nothing]
    /\ clicks = 0 /\ meddled = {} /\ crossed = {} /\ raced = {}

\* An upload makes an attachment with an id of its own, so none that a request
\* on its way is about.
Click(place, op, p, d) ==
    /\ clicks < MaxClicks
    /\ Offered(place, op, p, d) /\ Enabled(place, op, p, d)
    /\ op = "attach" => ~\E r \in asked : r.paper = p /\ r.doc = d /\ r.op \in DocOps
    /\ LET l == Label(place, op, p, d) IN pressed' = [pressed EXCEPT ![l.slot] = l.value]
    /\ asked' = asked \cup {[n |-> clicks, place |-> place, op |-> op, paper |-> p, doc |-> d,
                             at |-> "sent", held |-> shown[p], row |-> shown[p]]}
    /\ clicks' = clicks + 1
    /\ crossed' = IF \E r \in asked : r.paper = p /\ (op \in DocOps <=> r.op \notin DocOps)
                  THEN crossed \cup {p} ELSE crossed
    /\ UNCHANGED <<filed, decided, late, viewer, opened, shown, meddled, raced>>

\* The handler loads the row and checks the request on it, or fails without effect.
Load(r) ==
    /\ r.at = "sent"
    /\ LET failed == [r EXCEPT !.at = "failed"]
           loaded == [r EXCEPT !.at = "loaded", !.row = filed[r.paper]]
       IN \E q \in {failed} \cup (IF Grants(r.op, r.paper, r.doc) THEN {loaded} ELSE {}) :
             asked' = (asked \ {r}) \cup {q}
    /\ UNCHANGED <<filed, decided, late, viewer, opened, shown, pressed, clicks, meddled, crossed,
                   raced>>

\* Only a deletion may find its row gone.
RowThere(r) == r.op \in {"delete", "detach"} \/ filed[r.paper].status # Nothing

\* Whether a status is written over one that is neither the status that was
\* checked nor the same one.
Overwrites(r) ==
    /\ r.op \notin DocOps \cup {"delete"}
    /\ filed[r.paper].status \notin {r.row.status, Carried(r.op, r.row, r.doc).status}

\* What differs from the copy is written, over whatever the row is by now.  The
\* answer is the copy (expire_on_commit is off); when it is lost that looks like a
\* refusal.
Commit(r) ==
    /\ r.at = "loaded"
    /\ LET p == r.paper
           failed == [r EXCEPT !.at = "failed", !.row = r.held]
           done == [r EXCEPT !.at = "done", !.row = Carried(r.op, @, r.doc)]
       IN \/ /\ RowThere(r)
             /\ filed' = [filed EXCEPT ![p] = Carried(r.op, @, r.doc)]
             /\ raced' = IF Overwrites(r) THEN raced \cup {p} ELSE raced
             /\ \/ asked' = (asked \ {r}) \cup {done} /\ UNCHANGED meddled
                \/ asked' = (asked \ {r}) \cup {failed} /\ meddled' = meddled \cup {p}
          \/ /\ ~RowThere(r)
             /\ asked' = (asked \ {r}) \cup {failed}
             /\ UNCHANGED <<filed, meddled, raced>>
    /\ UNCHANGED <<decided, late, viewer, opened, shown, pressed, clicks, crossed>>

FromTheClick(r, held) ==
    CASE r.op = "attach" -> [r.held EXCEPT !.docs = @ \cup {r.doc}]
      [] r.op = "detach" -> [r.held EXCEPT !.docs = @ \ {r.doc}]
      [] OTHER -> r.row

\* How an answer changes the page: a document is added to or removed from the
\* copy held by now, any other answer replaces the copy.  (r.held is the copy the click was made on.)
Reflected(r, held) ==
    CASE r.op = "attach" -> [held EXCEPT !.docs = @ \cup {r.doc}]
      [] r.op = "detach" -> [held EXCEPT !.docs = @ \ {r.doc}]
      [] OTHER -> r.row

Hear(r) ==
    /\ r.at \in {"done", "failed"}
    /\ asked' = asked \ {r}
    /\ pressed' = [pressed EXCEPT ![Label(r.place, r.op, r.paper, r.doc).slot] = Nothing]
    /\ shown' = IF r.at = "done" /\ opened # Away
                THEN [shown EXCEPT ![r.paper] = Reflected(r, @)] ELSE shown
    /\ opened' = IF r.at = "done" /\ r.op = "delete" THEN Away ELSE opened
    /\ UNCHANGED <<filed, decided, late, viewer, clicks, meddled, crossed, raced>>

\* The committee moves the abstract on, from another browser.
Committee(p) ==
    /\ \E to \in SubmissionStatus :
          /\ <<filed[p].status, to>> \in TRANSITIONS
          /\ EdgeRoles(filed[p].status, to) \cap ChairRoles # {}
          /\ filed' = [filed EXCEPT ![p].status = to]
          /\ decided' = IF to = "decided" THEN decided \cup {p} ELSE decided
    /\ meddled' = meddled \cup {p}
    /\ meddled # meddled'
    /\ UNCHANGED <<late, viewer, opened, shown, asked, pressed, clicks, crossed, raced>>

AuthorNext ==
    \/ \E p \in Paper, d \in Doc, op \in AuthorOp :
          \E place \in {"list", "buttons", "banner", "card"} : Click(place, op, p, d)
    \/ \E r \in asked : Load(r) \/ Commit(r) \/ Hear(r)
    \/ \E p \in Paper : Committee(p)

AuthorSpec == AuthorInit /\ [][AuthorNext]_authorVars

-------------------------------------------------------------------------------
Quiet(p) == ~\E r \in asked : r.paper = p

(* A control is on the page only if the server would carry its request out,   *)
(* as long as the copy is current: ActionButtons and the card of documents    *)
(* repeat the rules of validate() and of the attachments.  Five cases are     *)
(* left: a passed deadline, a draft without a document, the last document of  *)
(* a submitted abstract, an administrator or chair using an author's button,  *)
(* whose role validate() refuses, and a draft that has a decision, which an   *)
(* override brings about and which cannot be deleted.                         *)
OfferedIsGranted ==
    \A p \in Paper : (Quiet(p) /\ p \notin meddled \cup crossed \cup raced) =>
        \A d \in Doc, op \in AuthorOp, place \in {"list", "buttons", "banner", "card"} :
            Offered(place, op, p, d)
            => \/ Grants(op, p, d)
               \/ op = "submit" /\ (late # {} \/ shown[p].docs = {})
               \/ op = "detach" /\ shown[p] = [status |-> "submitted", docs |-> {d}]
               \/ op \in DOMAIN Moves /\ viewer.role # "submitter"
               \/ op = "delete" /\ p \in decided

(* The page settles on the status of the abstract, however its clicks         *)
(* overlap: no button of ActionButtons is disabled while its request is on    *)
(* its way, since loading never equals its key.  But an abstract can be       *)
(* confirmed and withdrawn at once: both are checked before either is         *)
(* committed, the later commit decides, and the page shows the one whose      *)
(* answer came last.                                                          *)
StatusSettles ==
    \A p \in Paper :
        (Quiet(p) /\ p \notin meddled \cup raced /\ opened # Away)
        => shown[p].status = filed[p].status

(* The documents listed are those attached, even if several are deleted and   *)
(* added at once, unless another request crossed them: its answer, which the  *)
(* page takes as the whole abstract, may be older.                            *)
DocumentsSettle ==
    \A p \in Paper :
        (Quiet(p) /\ p \notin meddled \cup crossed /\ opened # Away) => shown[p].docs = filed[p].docs

(* When nothing is on its way the page shows the abstract as it is, its       *)
(* status and its documents.                                                  *)
FilingSettles == StatusSettles /\ DocumentsSettle
===============================================================================
