----------------------------- MODULE AbstractForm -----------------------------
(***************************************************************************)
(* The form of an abstract and the three pages that use it: a new draft    *)
(* with its document, an author's edit and an administrator's.  The form   *)
(* starts from the row as the server serialised it, where a field without  *)
(* a value is null; the schema of the form knows undefined, not null.      *)
(*                                                                         *)
(* Title, text and keywords are one field, valid or not: each of them has  *)
(* a message of its own.                                                   *)
(***************************************************************************)
EXTENDS Naturals, FiniteSets

CONSTANT MaxEdits   \* changes of the fields

VARIABLES
    formPage,      \* "new", "edit" or "admin-edit"
    tracksKnown,   \* tracks are configured: a select, not an input
    draftRow,      \* what the server holds of the abstract
    fields,        \* the values of the form
    docFile,       \* a document was chosen
    formErrors,    \* the errors of the last press
    saving,        \* the request on its way, or "idle"
    formLeft,      \* the page has gone to the abstract
    drafts,        \* drafts created from this form
    lostCreates,   \* creations whose answer was lost
    edits,
    sent           \* the values the last press sent

formVars == <<formPage, tracksKnown, draftRow, fields, docFile, formErrors, saving, formLeft,
              drafts, lostCreates, edits, sent>>

Email == {"ann", "bob"}
CoAuthor == [email : Email, name : {"given", "blank"}, institution : {"null", "unset", "given"}]
Track == {"null", "unset", "given"}
Emails(cs) == {c.email : c \in cs}

\* How pydantic stores a value that was left out, and serialises it.
Null(v) == IF v = "unset" THEN "null" ELSE v
Serialised(cs) == {[c EXCEPT !.institution = Null(@)] : c \in cs}

NewRow == [texts |-> FALSE, track |-> "unset", coauthors |-> {}]
Rows == [texts : {TRUE}, track : {"null", "given"},
         coauthors : {{}} \cup {{c} : c \in {d \in Serialised(CoAuthor) : d.name = "given"}}]

FormInit ==
    /\ formPage \in {"new", "edit", "admin-edit"}
    /\ tracksKnown \in BOOLEAN
    /\ draftRow \in IF formPage = "new" THEN {NewRow} ELSE Rows
    /\ fields = draftRow
    /\ docFile = FALSE /\ formErrors = {} /\ saving = "idle" /\ formLeft = FALSE
    /\ drafts = 0 /\ lostCreates = 0 /\ edits = 0
    /\ sent = fields

\* A change of the form: while a request is on its way only its button rests.
Edit(f) ==
    /\ edits < MaxEdits /\ ~formLeft
    /\ fields' = f /\ edits' = edits + 1
    /\ UNCHANGED <<formPage, tracksKnown, draftRow, docFile, formErrors, saving, formLeft, drafts,
                   lostCreates, sent>>

Write(ok) == fields.texts # ok /\ Edit([fields EXCEPT !.texts = ok])

\* A select cannot go back to no track; the input turns "" into undefined.
SetTrack(t) ==
    /\ t # fields.track /\ t \in IF tracksKnown THEN {"given"} ELSE {"given", "unset"}
    /\ Edit([fields EXCEPT !.track = t])

\* coAuthorSchema looks at the name before it is trimmed.
AddCoAuthor(c) ==
    /\ c.institution # "null" /\ c.email \notin Emails(fields.coauthors)
    /\ Edit([fields EXCEPT !.coauthors = @ \cup {c}])

RemoveCoAuthor(e) ==
    /\ e \in Emails(fields.coauthors)
    /\ Edit([fields EXCEPT !.coauthors = {c \in @ : c.email # e}])

\* A document of the wrong type or size is refused, and the choice undone.
HandleDocumentChange ==
    /\ formPage = "new" /\ ~formLeft
    /\ docFile' = ~docFile
    /\ formErrors' = IF docFile' THEN formErrors \ {"document"} ELSE formErrors
    /\ UNCHANGED <<formPage, tracksKnown, draftRow, fields, saving, formLeft, drafts, lostCreates,
                   edits, sent>>

\* The fields the resolver finds at fault, and those with a message on the page.
Faulty(f) ==
    (IF f.texts THEN {} ELSE {"texts"})
    \cup (IF f.track = "null" THEN {"track"} ELSE {})
    \cup {"coauthors" : c \in {d \in f.coauthors : d.name = "blank" \/ d.institution = "null"}}
    \cup (IF formPage = "new" /\ ~docFile THEN {"document"} ELSE {})
DocumentOnly == {"document"}
WithMessage == {"texts", "document"}

Press ==
    /\ ~formLeft /\ saving = "idle"
    /\ formErrors' = Faulty(fields)
    /\ saving' = IF Faulty(fields) # {} THEN "idle" ELSE IF formPage = "new" THEN "create" ELSE "update"
    /\ sent' = fields
    /\ UNCHANGED <<formPage, tracksKnown, draftRow, fields, docFile, formLeft, drafts, lostCreates,
                   edits>>

\* update_submission leaves a field that was not sent as it is.
Stored(row, f) ==
    [texts |-> f.texts,
     track |-> IF f.track = "unset" THEN Null(row.track) ELSE f.track,
     coauthors |-> Serialised(f.coauthors)]

\* The server stores the form, its answer comes or is lost, or it refuses.
Saved ==
    /\ saving \in {"create", "update"}
    /\ draftRow' = Stored(draftRow, sent)
    /\ drafts' = drafts + (IF saving = "create" THEN 1 ELSE 0)
    /\ \/ /\ saving' = IF saving = "create" THEN "upload" ELSE "idle"
          /\ formLeft' = (saving = "update")
          /\ UNCHANGED lostCreates
       \/ /\ lostCreates = 0
          /\ saving' = "idle"
          /\ lostCreates' = lostCreates + (IF saving = "create" THEN 1 ELSE 0)
          /\ UNCHANGED formLeft
    /\ UNCHANGED <<formPage, tracksKnown, fields, docFile, formErrors, edits, sent>>

NotSaved ==
    /\ saving \in {"create", "update"}
    /\ saving' = "idle"
    /\ UNCHANGED <<formPage, tracksKnown, draftRow, fields, docFile, formErrors, formLeft, drafts,
                   lostCreates, edits, sent>>

StayOnForm == FALSE
LeaveAnyway == TRUE

\* The draft exists: whether or not its document could be attached, the page
\* goes on to the draft.
Uploaded(ok) ==
    /\ saving = "upload"
    /\ saving' = "idle"
    /\ formLeft' = IF ok THEN TRUE ELSE LeaveAnyway
    /\ UNCHANGED <<formPage, tracksKnown, draftRow, fields, docFile, formErrors, drafts,
                   lostCreates, edits, sent>>

\* The author comes back to the draft, to change it.
EditDraft ==
    /\ formLeft
    /\ formPage' = "edit" /\ formLeft' = FALSE
    /\ fields' = draftRow /\ docFile' = FALSE /\ formErrors' = {}
    /\ UNCHANGED <<tracksKnown, draftRow, saving, drafts, lostCreates, edits, sent>>

FormNext ==
    \/ \E ok \in BOOLEAN : Write(ok) \/ Uploaded(ok)
    \/ \E t \in Track : SetTrack(t)
    \/ \E c \in CoAuthor : AddCoAuthor(c)
    \/ \E e \in Email : RemoveCoAuthor(e)
    \/ HandleDocumentChange \/ Press \/ Saved \/ NotSaved \/ EditDraft

FormSpec == FormInit /\ [][FormNext]_formVars

-------------------------------------------------------------------------------
(* A press that does nothing says why: whatever the form was loaded with,     *)
(* there is a message at a field, except for a null the server itself sent (a *)
(* draft without a track, a co-author without an institution) and a co-author *)
(* whose name is blank.                                                       *)
RefusalIsShown ==
    (formErrors # {} /\ formErrors \cap WithMessage = {}) =>
        \/ "track" \in formErrors /\ formPage # "new"
        \/ "coauthors" \in formErrors

(* One form makes one draft: a failed upload, an error and another press do   *)
(* not leave a second copy of the abstract, unless the answer to a creation   *)
(* was lost.                                                                  *)
OneDraftPerForm == drafts <= 1 + lostCreates

(* The form answers every press: by its draft, one for all presses, or by a   *)
(* message.                                                                   *)
FormAnswers == RefusalIsShown /\ OneDraftPerForm
===============================================================================
