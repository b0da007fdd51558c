------------------------------ MODULE MCCommittee -----------------------------
(***************************************************************************)
(* One page of the committee's part of the frontend is open, and moves;    *)
(* the others are closed.  Which one is open is chosen once, so that a     *)
(* single run goes through all of them; the closed ones' states are fixed. *)
(* Nothing is claimed of a line-up once a request that took effect failed, *)
(* and the run goes no further.                                            *)
(***************************************************************************)
EXTENDS SessionEditor, SessionsPage, SettingsForm, AccountsTable, ReviewPages, AbstractDesk,
        CommitteeMail, TemplatesPage, EmailTemplatesPage, SettingsDeadlines

CONSTANTS s1, r1

VARIABLE page

Pages == {"editor", "sessions", "settings", "accounts", "reviews", "desk", "mail", "templates", "texts",
          "deadlines"}
Presenting == {<<s1, r1>>}
Chair == CHOOSE p \in Recipient : TRUE

CommitteeInit ==
    /\ page \in Pages
    /\ page = "editor" \/ (lineup = {} /\ stage = [t \in Submission |-> "decided"])
    /\ present = Item
    /\ page = "sessions" \/ (/\ place = [t \in Booked |-> CHOOSE i \in Item : TRUE]
                             /\ rank = [t \in Booked |-> "assigned"])
    /\ types = <<[key |-> <<"a">>, label |-> <<"a">>]>> /\ (page = "settings" \/ inUse = {})
    /\ page = "reviews" \/ (assigned = {} /\ onMatrix = TRUE /\ status3 = [s \in Entry |-> "submitted"])
    /\ page = "desk" \/ (/\ verdict = [is |-> NoVerdict, edition |-> 0]
                         /\ row = [status |-> "under_review", edition |-> 0,
                                   author |-> CHOOSE a \in Account4 : TRUE])
    /\ page = "templates" \/ stock = {}
    /\ page = "deadlines" \/ (deadline = NoDate /\ zone \in [Browser -> {0}])
    /\ world = [p \in Recipient |-> [role |-> IF p = Chair THEN "reviewer" ELSE "submitter",
                                      status |-> Another]]
    /\ EditorInit /\ SessionsInit /\ SettingsInit /\ AccountsInit /\ ReviewsInit /\ DeskInit /\ MailInit
    /\ TemplatesInit /\ TextsInit /\ DatesInit
    /\ row.author = CHOOSE a \in Account4 : TRUE
    /\ page = "sessions" => \A t \in Booked : place[t] \in Block => rank[t] = "advanced"
    /\ page = "editor" => /\ \A t \in Submission : stage[t] # "under_review"
                          /\ \A x \in lineup : x.order = IF x.slot.item \in Pause THEN 2 ELSE 1
                          /\ Cardinality(lineup) \in {0, 2}

CommitteeNext ==
    /\ UNCHANGED page
    /\ IF page = "editor" /\ ~elsewhere THEN EditorNext ELSE UNCHANGED editorVars
    /\ IF page = "sessions" THEN SessionsNext ELSE UNCHANGED pageVars
    /\ IF page = "settings" THEN SettingsNext ELSE UNCHANGED settingsVars
    /\ IF page = "accounts" THEN AccountsNext ELSE UNCHANGED accountVars
    /\ IF page = "reviews" THEN ReviewsNext ELSE UNCHANGED reviewVars
    /\ IF page = "desk" THEN DeskNext ELSE UNCHANGED deskVars
    /\ IF page = "mail" THEN MailNext ELSE UNCHANGED mailVars
    /\ IF page = "templates" THEN TemplatesNext ELSE UNCHANGED templateVars
    /\ IF page = "texts" THEN TextsNext ELSE UNCHANGED textVars
    /\ IF page = "deadlines" THEN DatesNext ELSE UNCHANGED dateVars

CommitteeSpec ==
    CommitteeInit
    /\ [][CommitteeNext]_<<page, editorVars, pageVars, settingsVars, accountVars, reviewVars,
                           deskVars, mailVars, templateVars, textVars, dateVars>>

(* When nothing is on its way, a page of the committee shows what the server  *)
(* has, whichever buttons were pressed at once and in whichever order the     *)
(* answers came, and offers what it would accept: the line-up of a session    *)
(* and the submissions to add, the sessions, the accounts, the reviews, an    *)
(* abstract with its decision, the program templates and the texts of the     *)
(* mails; each with the exceptions named there.                               *)
PagesSettle ==
    /\ LineupShown /\ OfferedIsAssignable /\ ListSettles /\ RowsSettle
    /\ ReviewsShown /\ DeskSettles /\ TemplatesSettle /\ TextsSettle

(* Nothing is destroyed that the page did not name before it was confirmed:   *)
(* the fate of an abstract whose session is deleted, the feedback of a        *)
(* reviewer who is unassigned.                                                *)
NothingLostUnnamed == FateWasNamed /\ FeedbackNotErased

(* Administration does not lock itself out: what the configuration loses is   *)
(* not in use, what is in use can be renamed, and an administrator remains;   *)
(* and a deadline stays where it was put.                                     *)
AdministrationKept == InUseConfigured /\ RenamesAccepted /\ DeadlinesKept /\ SomeAdmin

(* What was confirmed is done once, and to whom it was confirmed for: a mail  *)
(* to an audience, a template added to the program.                           *)
DoneAsConfirmed == OnlyThePreviewed /\ OncePerText /\ AppliedOnce
===============================================================================
