----------------------------- MODULE UploadWizard -----------------------------
(***************************************************************************)
(* The page that uploads the final files of a confirmed abstract.  The     *)
(* list of files is the page's state; handleSubmit walks through the list  *)
(* as it was when the button was pressed and reports on the entry at the   *)
(* same index of the list as it is by then, while files may be added and   *)
(* pending ones removed.                                                   *)
(***************************************************************************)
EXTENDS Naturals, Sequences, FiniteSets
LOCAL INSTANCE SequencesExt

CONSTANTS
    UploadFile,    \* the files the user selects
    MaxUploads     \* uploads attempted, over all presses of the button

VARIABLES
    entries,       \* the list on the page
    submitting,
    batch, index,  \* handleSubmit's list, and where in it it is
    allOk,
    submission,    \* the abstract's status, and whether its deadline has passed
    recorded,      \* for each file, the attachments made of it
    uploadsTried,
    lostAnswers,   \* files recorded by an upload whose answer was lost
    drifted,       \* an entry was removed while the loop went over the list
    dropped,       \* or at any time after the button was pressed
    told           \* what the page said last

uploadVars == <<entries, submitting, batch, index, allOk, submission, recorded, uploadsTried,
                lostAnswers, drifted, dropped, told>>

FileEntry(f, status) == [file |-> f, status |-> status]
FilesOf(list) == {list[i].file : i \in 1 .. Len(list)}

UploadInit ==
    /\ entries = <<>> /\ batch = <<>> /\ index = 1
    /\ submitting = FALSE /\ allOk = TRUE
    /\ submission \in [status : {"confirmed", "files_submitted"}, late : BOOLEAN]
    /\ recorded = [f \in UploadFile |-> 0]
    /\ uploadsTried = 0 /\ lostAnswers = {}
    /\ drifted = FALSE /\ dropped = FALSE /\ told = "nothing"

OnPage == told # "submitted"

AddFile(f) ==
    /\ OnPage /\ f \notin FilesOf(entries)
    /\ entries' = Append(entries, FileEntry(f, "pending"))
    /\ UNCHANGED <<submitting, batch, index, allOk, submission, recorded, uploadsTried,
                   lostAnswers, drifted, dropped, told>>

\* The list has a cross next to each entry that is neither uploading nor done.
RemoveEntry(i) ==
    /\ OnPage /\ entries[i].status \notin {"uploading", "done"}
    /\ entries' = RemoveAt(entries, i)
    /\ drifted' = (drifted \/ submitting)
    /\ dropped' = (dropped \/ batch # <<>>)
    /\ UNCHANGED <<submitting, batch, index, allOk, submission, recorded, uploadsTried,
                   lostAnswers, told>>

PendingOnly == Cardinality({i \in DOMAIN entries : entries[i].status = "pending"})
PendingCount == Cardinality({i \in DOMAIN entries : entries[i].status # "done"})

HandleSubmit ==
    /\ OnPage /\ ~submitting /\ PendingCount > 0
    /\ submitting' = TRUE
    /\ batch' = entries /\ index' = 1 /\ allOk' = TRUE
    /\ UNCHANGED <<entries, submission, recorded, uploadsTried, lostAnswers, drifted, dropped, told>>

\* updateStatus(): the entry at the index, if there still is one.
UpdateStatus(i, status) ==
    entries' = [j \in DOMAIN entries |->
                    IF j = i THEN [entries[j] EXCEPT !.status = status] ELSE entries[j]]

UploadAll(e) == FALSE
Skipped(e) == e.status = "done"

SkipEntry ==
    /\ submitting /\ index <= Len(batch) /\ Skipped(batch[index])
    /\ index' = index + 1
    /\ UNCHANGED <<entries, submitting, batch, allOk, submission, recorded, uploadsTried,
                   lostAnswers, drifted, dropped, told>>

Uploading == \E i \in DOMAIN entries : i = index /\ entries[i].status = "uploading"

StartUpload ==
    /\ submitting /\ index <= Len(batch) /\ ~Skipped(batch[index]) /\ ~Uploading
    /\ index \in DOMAIN entries
    /\ uploadsTried < MaxUploads
    /\ UpdateStatus(index, "uploading")
    /\ UNCHANGED <<submitting, batch, index, allOk, submission, recorded, uploadsTried,
                   lostAnswers, drifted, dropped, told>>

TickedAnyway(ok) == "done"
Outcome(ok) == IF ok THEN "done" ELSE "error"

\* The three requests of an entry: the signed URL, the object, and its
\* recording, which the server refuses unless the abstract is confirmed.
FinishUpload ==
    /\ submitting /\ index <= Len(batch) /\ ~Skipped(batch[index])
    /\ Uploading \/ index \notin DOMAIN entries
    /\ uploadsTried < MaxUploads /\ uploadsTried' = uploadsTried + 1
    /\ LET f == batch[index].file IN
       \/ /\ submission.status = "confirmed"
          /\ recorded' = [recorded EXCEPT ![f] = @ + 1]
          /\ UpdateStatus(index, Outcome(TRUE))
          /\ UNCHANGED <<allOk, lostAnswers>>
       \/ /\ UpdateStatus(index, Outcome(FALSE))
          /\ allOk' = FALSE
          /\ \/ UNCHANGED <<recorded, lostAnswers>>
             \/ /\ submission.status = "confirmed"
                /\ recorded' = [recorded EXCEPT ![f] = @ + 1]
                /\ lostAnswers' = lostAnswers \cup {f}
    /\ index' = index + 1
    /\ UNCHANGED <<submitting, batch, submission, drifted, dropped, told>>

\* After the loop: submitFiles, whose every error is swallowed, or the message
\* that some files failed.
EvenIfSomeFailed(ok) == TRUE
MaySubmit(ok) == ok

EndOfBatch ==
    /\ submitting /\ index > Len(batch)
    /\ IF MaySubmit(allOk)
       THEN /\ told' = "submitted"
            /\ \/ /\ submission.status = "confirmed" /\ ~submission.late
                  /\ submission' = [submission EXCEPT !.status = "files_submitted"]
               \/ UNCHANGED submission
       ELSE told' = "failed" /\ UNCHANGED submission
    /\ submitting' = FALSE
    /\ UNCHANGED <<entries, batch, index, allOk, recorded, uploadsTried, lostAnswers, drifted, dropped>>

UploadNext ==
    \/ \E f \in UploadFile : AddFile(f)
    \/ \E i \in DOMAIN entries : RemoveEntry(i)
    \/ HandleSubmit \/ SkipEntry \/ StartUpload \/ FinishUpload \/ EndOfBatch

UploadSpec == UploadInit /\ [][UploadNext]_uploadVars

-------------------------------------------------------------------------------
(* A file with a tick next to it has been recorded, over any number of        *)
(* attempts, failures and additions to the list: unless an entry was removed  *)
(* while the loop went over it, after which updateStatus ticks the wrong one. *)
TickedIsRecorded ==
    ~drifted => \A i \in DOMAIN entries :
                    entries[i].status = "done" => recorded[entries[i].file] > 0

(* When the page says that the final files have been received, every file     *)
(* that was listed when the button was pressed has been recorded.             *)
SubmittedIsRecorded ==
    (told = "submitted" /\ ~drifted) => \A f \in FilesOf(batch) : recorded[f] > 0

(* A file is recorded twice only if it was recorded by an upload whose answer *)
(* was lost: another attempt skips what is done.                              *)
RecordedOnce ==
    ~drifted => \A f \in UploadFile : recorded[f] > 1 => f \in lostAnswers

(* The page never ends up with a list it can neither submit nor leave as      *)
(* submitted: while it is open and idle some entry can still be uploaded,     *)
(* unless one was removed since the button was first pressed.                 *)
NeverStuck ==
    (~dropped /\ OnPage /\ ~submitting /\ entries # <<>>) => PendingCount > 0

(* What the page tells of the uploads is what became of them, over any number *)
(* of attempts.                                                               *)
UploadsAreRecorded == TickedIsRecorded /\ SubmittedIsRecorded /\ RecordedOnce /\ NeverStuck
===============================================================================
