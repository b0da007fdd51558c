------------------------------ MODULE MCDocuments -----------------------------
(***************************************************************************)
(* The documents of abstracts: the author's pages that file them, and the  *)
(* two stores that keep them.  One of the four is followed at a time,      *)
(* chosen once, so that a single run goes through all of them; the states  *)
(* of the others are fixed.                                                *)
(***************************************************************************)
EXTENDS AuthorPages, UploadWizard, AbstractForm, FileStorage, TLC

CONSTANTS m1, k1, k2, k3

VARIABLE page

DocumentsSymmetry ==
    UNION {Permutations(S) : S \in {Doc, Upload}}

Pages == {"author", "upload", "form", "storage"}
TheManuscriptOf == [k \in {k1, k2, k3} |-> m1]

DocumentsInit ==
    /\ page \in Pages
    /\ page = "author" \/ (/\ late = {} /\ opened = Dashboard
                           /\ viewer = [role |-> "submitter", owner |-> TRUE]
                           /\ decided = {}
                           /\ filed = [p \in Paper |-> [status |-> "draft", docs |-> {}]])
    /\ page = "upload" \/ submission = [status |-> "confirmed", late |-> FALSE]
    /\ page = "form" \/ (formPage = "new" /\ tracksKnown = FALSE)
    /\ AuthorInit
    \* The pages of two abstracts are alike; a decision and a deadline matter to drafts.
    /\ opened \in {Dashboard, CHOOSE p \in Paper : TRUE}
    /\ \A p \in decided : opened = p /\ filed[p].status = "draft"
    /\ late = {} \/ \E p \in Paper : filed[p].status = "draft"
    /\ UploadInit /\ FormInit /\ FilesInit

DocumentsNext ==
    /\ UNCHANGED page
    /\ IF page = "author" THEN AuthorNext ELSE UNCHANGED authorVars
    /\ IF page = "upload" THEN UploadNext ELSE UNCHANGED uploadVars
    /\ IF page = "form" THEN FormNext ELSE UNCHANGED formVars
    /\ IF page = "storage" THEN FilesNext ELSE UNCHANGED fileVars

DocumentsSpec ==
    DocumentsInit /\ [][DocumentsNext]_<<page, authorVars, uploadVars, formVars, fileVars>>
===============================================================================
