------------------------------ MODULE FileStorage ------------------------------
(***************************************************************************)
(* The documents of abstracts in their two stores: a row of attachments,   *)
(* written by the server, and an object in the bucket, put there by the    *)
(* browser and deleted by the server.  No transaction spans the two, and a *)
(* handler may be interrupted between any two of its statements: it is     *)
(* modelled as the statements that read, the call to the bucket, and the   *)
(* commit.                                                                 *)
(***************************************************************************)
CONSTANTS
    Manuscript,        \* submissions
    Upload,            \* storage keys, each made for one upload
    ManuscriptOf       \* the submission in the key

ASSUME FileAssumption == ManuscriptOf \in [Upload -> Manuscript]

VARIABLES
    stageOf,      \* submissions: unborn, draft, submitted, under_review or gone
    attachments,  \* the rows, by their keys
    objects,      \* the bucket
    uploadAt,     \* how far the upload of each key is
    deletionAt,   \* how far delete_attachment is with each row
    submits,      \* submissions transition_submission has checked
    removals,     \* submissions delete_submission has loaded, with their keys
    cleaning,     \* keys delete_submission is about to delete from the bucket
    resetting,    \* reset_all_data: "no", its rows are gone, its list is made
    listing,      \* the objects it found
    overlapped,   \* submissions two of whose requests overlapped, or an administrator's
    excused       \* keys whose stores were left apart by a cause named below

stores == <<stageOf, attachments, objects>>
requests == <<uploadAt, deletionAt, submits, removals, cleaning>>
reset == <<resetting, listing>>
causes == <<overlapped, excused>>
fileVars == <<stores, requests, reset, causes>>

KeysOf(m) == {k \in attachments : ManuscriptOf[k] = m}
Editable == {"draft", "submitted"}

FilesInit ==
    /\ stageOf = [m \in Manuscript |-> "unborn"]
    /\ attachments = {} /\ objects = {}
    /\ uploadAt = [k \in Upload |-> "no"]
    /\ deletionAt = [k \in Upload |-> "no"]
    /\ submits = {} /\ removals = {} /\ cleaning = {}
    /\ resetting = "no" /\ listing = {}
    /\ overlapped = {} /\ excused = {}

CreateManuscript(m) ==
    /\ stageOf[m] = "unborn"
    /\ stageOf' = [stageOf EXCEPT ![m] = "draft"]
    /\ UNCHANGED <<attachments, objects, requests, reset, causes>>

\* assign_reviewer opens the review.
OpenReview(m) ==
    /\ stageOf[m] = "submitted"
    /\ stageOf' = [stageOf EXCEPT ![m] = "under_review"]
    /\ UNCHANGED <<attachments, objects, requests, reset, causes>>

-------------------------------------------------------------------------------
(* An upload: the URL, the browser's PUT, and confirm_upload.              *)

UploadStep(k, from, to) ==
    /\ uploadAt[k] = from
    /\ uploadAt' = [uploadAt EXCEPT ![k] = to]

RequestUploadUrl(k) ==
    /\ stageOf[ManuscriptOf[k]] \notin {"unborn", "gone"}
    /\ UploadStep(k, "no", "url")
    /\ UNCHANGED <<stores, deletionAt, submits, removals, cleaning, reset, causes>>

PutObject(k) ==
    /\ UploadStep(k, "url", "put")
    /\ objects' = objects \cup {k}
    /\ UNCHANGED <<stageOf, attachments, deletionAt, submits, removals, cleaning, reset,
                   causes>>

CheckUpload(k, admin) ==
    /\ UploadStep(k, "put", "checked")
    /\ stageOf[ManuscriptOf[k]] \in IF admin THEN Editable \cup {"under_review"} ELSE Editable
    /\ UNCHANGED <<stores, deletionAt, submits, removals, cleaning, reset, causes>>

\* The foreign key lets the row in only if its submission still exists.  A row
\* written while its submission is being deleted goes with it, but its key is
\* not among those delete_submission loaded; one written while the bucket is
\* being emptied loses its object.
ConfirmUploadRow(k) ==
    /\ UploadStep(k, "checked", "done")
    /\ stageOf[ManuscriptOf[k]] # "gone"
    /\ attachments' = attachments \cup {k}
    /\ excused' = IF resetting # "no" \/ \E r \in removals : r.of = ManuscriptOf[k]
                  THEN excused \cup {k} ELSE excused
    /\ UNCHANGED <<stageOf, objects, deletionAt, submits, removals, cleaning, reset,
                   overlapped>>

\* The tab is closed, a request fails, or the server refuses the row.
AbandonUpload(k) ==
    /\ uploadAt[k] \in {"url", "put", "checked"}
    /\ uploadAt' = [uploadAt EXCEPT ![k] = "abandoned"]
    /\ excused' = excused \cup {k}
    /\ UNCHANGED <<stores, deletionAt, submits, removals, cleaning, reset, overlapped>>

-------------------------------------------------------------------------------
(* delete_attachment: the checks, the object, the row.                     *)

Anyway(k) == TRUE
OthersRemain(k) == KeysOf(ManuscriptOf[k]) # {k}
KeepsDocument(k) == OthersRemain(k)

Busy(m) ==
    \/ m \in submits
    \/ \E k \in Upload : ManuscriptOf[k] = m /\ deletionAt[k] # "no"

CheckDeletion(k, admin) ==
    LET m == ManuscriptOf[k]
    IN /\ k \in attachments /\ deletionAt[k] = "no"
       /\ ~admin => /\ stageOf[m] \in Editable
                    /\ stageOf[m] = "submitted" => KeepsDocument(k)
       /\ deletionAt' = [deletionAt EXCEPT ![k] = "checked"]
       /\ overlapped' = IF admin \/ Busy(m) THEN overlapped \cup {m} ELSE overlapped
    /\ UNCHANGED <<stores, uploadAt, submits, removals, cleaning, reset, excused>>

\* A ClientError is ignored: the object may stay.
DeleteObject(k, refused) ==
    /\ deletionAt[k] = "checked"
    /\ deletionAt' = [deletionAt EXCEPT ![k] = "erased"]
    /\ objects' = IF refused THEN objects ELSE objects \ {k}
    /\ excused' = IF refused THEN excused \cup {k} ELSE excused
    /\ UNCHANGED <<stageOf, attachments, uploadAt, submits, removals, cleaning, reset,
                   overlapped>>

DeleteRow(k) ==
    /\ deletionAt[k] = "erased"
    /\ deletionAt' = [deletionAt EXCEPT ![k] = "no"]
    /\ attachments' = attachments \ {k}
    /\ UNCHANGED <<stageOf, objects, uploadAt, submits, removals, cleaning, reset, causes>>

\* The process stops, the commit fails, or the client library raises something
\* else than ClientError.
DeletionDies(k) ==
    /\ deletionAt[k] # "no"
    /\ deletionAt' = [deletionAt EXCEPT ![k] = "no"]
    /\ excused' = IF deletionAt[k] = "erased" THEN excused \cup {k} ELSE excused
    /\ UNCHANGED <<stores, uploadAt, submits, removals, cleaning, reset, overlapped>>

-------------------------------------------------------------------------------
(* transition_submission to submitted.                                     *)

CheckSubmit(m) ==
    /\ stageOf[m] = "draft" /\ m \notin submits /\ KeysOf(m) # {}
    /\ submits' = submits \cup {m}
    /\ overlapped' = IF Busy(m) THEN overlapped \cup {m} ELSE overlapped
    /\ UNCHANGED <<stores, uploadAt, deletionAt, removals, cleaning, reset, excused>>

\* An update of a row that is gone raises.
CommitSubmit(m) ==
    /\ m \in submits
    /\ submits' = submits \ {m}
    /\ stageOf' = IF stageOf[m] = "gone" THEN stageOf ELSE [stageOf EXCEPT ![m] = "submitted"]
    /\ UNCHANGED <<attachments, objects, uploadAt, deletionAt, removals, cleaning, reset,
                   causes>>

-------------------------------------------------------------------------------
(* delete_submission: the keys are read before the rows go, and deleted    *)
(* from the bucket afterwards.                                             *)

NoKeys(m) == {}
Captured(m) == KeysOf(m)

LoadManuscript(m, admin) ==
    /\ stageOf[m] \in IF admin THEN Editable \cup {"under_review"} ELSE {"draft"}
    /\ ~\E r \in removals : r.of = m
    /\ removals' = removals \cup {[of |-> m, keys |-> Captured(m)]}
    /\ excused' = excused \cup {k \in Upload : ManuscriptOf[k] = m /\ deletionAt[k] # "no"}
    /\ UNCHANGED <<stores, uploadAt, deletionAt, submits, cleaning, reset, overlapped>>

DeleteManuscript(r) ==
    /\ removals' = removals \ {r}
    /\ stageOf' = [stageOf EXCEPT ![r.of] = "gone"]
    /\ attachments' = attachments \ KeysOf(r.of)
    /\ cleaning' = cleaning \cup r.keys
    /\ UNCHANGED <<objects, uploadAt, deletionAt, submits, reset, causes>>

CleanUp(k) ==
    /\ k \in cleaning /\ cleaning' = cleaning \ {k}
    /\ objects' = objects \ {k}
    /\ UNCHANGED <<stageOf, attachments, uploadAt, deletionAt, submits, removals, reset,
                   causes>>

\* Best effort: the process stops, or the bucket does not answer.
CleanUpDies ==
    /\ cleaning # {} /\ cleaning' = {}
    /\ excused' = excused \cup cleaning
    /\ UNCHANGED <<stores, uploadAt, deletionAt, submits, removals, reset, overlapped>>

-------------------------------------------------------------------------------
(* reset_all_data: the rows and the submissions first, in one commit; then *)
(* whatever is in the bucket.                                              *)

ResetRows ==
    /\ resetting = "no" /\ \E m \in Manuscript : stageOf[m] \notin {"unborn", "gone"}
    /\ resetting' = "emptied"
    /\ stageOf' = [m \in Manuscript |-> IF stageOf[m] = "unborn" THEN "unborn" ELSE "gone"]
    /\ attachments' = {}
    /\ UNCHANGED <<objects, requests, listing, causes>>

ListObjects ==
    /\ resetting = "emptied"
    /\ resetting' = "listed" /\ listing' = objects
    /\ excused' = excused \cup attachments \cup {k \in Upload : uploadAt[k] \in {"put", "checked"}}
    /\ UNCHANGED <<stores, requests, overlapped>>

DeleteObjects ==
    /\ resetting = "listed"
    /\ resetting' = "over" /\ listing' = {}
    /\ objects' = objects \ listing
    /\ UNCHANGED <<stageOf, attachments, requests, causes>>

\* The exception is logged: "manual deletion may be required".
ResetDies ==
    /\ resetting \in {"emptied", "listed"}
    /\ resetting' = "over" /\ listing' = {}
    /\ excused' = excused \cup objects
    /\ UNCHANGED <<stores, requests, overlapped>>

FilesNext ==
    \/ \E m \in Manuscript :
          \/ CreateManuscript(m) \/ OpenReview(m) \/ CheckSubmit(m) \/ CommitSubmit(m)
          \/ \E admin \in BOOLEAN : LoadManuscript(m, admin)
    \/ \E k \in Upload :
          \/ RequestUploadUrl(k) \/ PutObject(k) \/ ConfirmUploadRow(k) \/ AbandonUpload(k)
          \/ DeleteRow(k) \/ DeletionDies(k) \/ CleanUp(k)
          \/ \E admin \in BOOLEAN : CheckUpload(k, admin) \/ CheckDeletion(k, admin)
          \/ \E refused \in BOOLEAN : DeleteObject(k, refused)
    \/ \E r \in removals : DeleteManuscript(r)
    \/ CleanUpDies \/ ResetRows \/ ListObjects \/ DeleteObjects \/ ResetDies

FilesSpec == FilesInit /\ [][FilesNext]_fileVars

-------------------------------------------------------------------------------
\* Keys some request still holds.
InHand ==
    {k \in Upload : uploadAt[k] \in {"put", "checked"} \/ deletionAt[k] = "erased"}
    \cup cleaning

(* The two stores agree on every key no request is busy with: a row has its    *)
(* object and an object its row.  What may leave them apart for good is one of *)
(* these: an abandoned upload, a handler that died between its steps, an error *)
(* of the bucket that is ignored, and an upload or a deletion that overlapped  *)
(* with the deletion of its submission or with the reset.                      *)
StoresAgree ==
    resetting \in {"no", "over"} =>
        \A k \in Upload \ (InHand \cup excused) : k \in attachments <=> k \in objects

(* "A submitted abstract must keep at least one document for the reviewers":   *)
(* it does, except when an administrator deleted one, or when two deletions,   *)
(* or a deletion and the submission, were checked before either was committed. *)
SubmittedHasDocument ==
    \A m \in Manuscript \ overlapped :
        stageOf[m] \in {"submitted", "under_review"} => KeysOf(m) # {}
===============================================================================
