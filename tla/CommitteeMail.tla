----------------------------- MODULE CommitteeMail -----------------------------
(***************************************************************************)
(* The page that e-mails an audience.  It shows how many people a preview *)
(* found before it sends, and the server chooses the recipients again when *)
(* it sends.                                                               *)
(***************************************************************************)
EXTENDS Naturals, FiniteSets

CONSTANTS
    Recipient,    \* people with an account and one abstract each
    MaxMails      \* requests of the page

VARIABLES
    world,        \* the role and the status of each recipient
    filters,      \* the audience in the form
    preview,      \* setPreview
    mailCalls, mailed,    \* requests on their way; requests begun
    inbox,        \* how often each recipient was written to, for one text
    crossedPreview,   \* the answer of a preview for other filters was shown
    changedWorld,     \* somebody's role or status changed after the preview
    retried,          \* the answer to a sending was lost
    wronged           \* somebody was written to whom the preview did not count

mailVars == <<world, filters, preview, mailCalls, mailed, inbox, crossedPreview, changedWorld,
              retried, wronged>>

MailRole == {"submitter", "reviewer"}
MailStatus == {"notified"}
Another == "another status"
NoPreview == [shown |-> FALSE, audience |-> {}]

\* _audience_query: the filters combine with AND, an empty one matches all.
Matches(person, f) ==
    /\ f.roles = {} \/ person.role \in f.roles
    /\ f.statuses = {} \/ person.status \in f.statuses
Audience(f) == {p \in Recipient : Matches(world[p], f)}

MailInit ==
    /\ world \in [Recipient -> [role : MailRole, status : {Another}]]
    /\ filters = [roles |-> {}, statuses |-> {}]
    /\ preview = NoPreview
    /\ mailCalls = {} /\ mailed = 0
    /\ inbox = [p \in Recipient |-> 0]
    /\ crossedPreview = FALSE /\ changedWorld = FALSE /\ retried = FALSE /\ wronged = FALSE

KeepPreview(p) == p
Invalidate(p) == NoPreview

\* toggle and applyPreset: a change of the filters takes the preview away.
SetFilters(f) ==
    /\ filters # f /\ filters' = f
    /\ preview' = Invalidate(preview)
    /\ UNCHANGED <<world, mailCalls, mailed, inbox, crossedPreview, changedWorld, retried, wronged>>

Toggle4(set, x) == IF x \in set THEN set \ {x} ELSE set \cup {x}
ToggleRole(r) == SetFilters([filters EXCEPT !.roles = Toggle4(@, r)])
ToggleStatus(s) == SetFilters([filters EXCEPT !.statuses = Toggle4(@, s)])
ApplyPreset(r, s) == SetFilters([roles |-> r, statuses |-> s])

\* The spinner of a button keeps it from being clicked again.
AnyTime(op) == TRUE
NotWaiting(op) == \A c \in mailCalls : c.op # op
Mail(op) ==
    /\ mailed < MaxMails /\ mailed' = mailed + 1
    /\ NotWaiting(op)
    /\ mailCalls' = mailCalls \cup {[n |-> mailed, op |-> op, filters |-> filters,
                                     at |-> "sent", audience |-> preview.audience,
                                     crossed |-> crossedPreview]}
    /\ UNCHANGED <<world, filters, preview, inbox, crossedPreview, changedWorld, retried, wronged>>

HandlePreview == Mail("preview")

\* canSend, and the confirmation with the number in the preview.
HandleSend ==
    /\ preview.shown /\ preview.audience # {}
    /\ Mail("send")

PreviewAudience(c) ==
    /\ c.op = "preview" /\ c.at = "sent"
    /\ mailCalls' = (mailCalls \ {c}) \cup {[c EXCEPT !.at = "done", !.audience = Audience(c.filters)]}
    /\ UNCHANGED <<world, filters, preview, mailed, inbox, crossedPreview, changedWorld, retried,
                   wronged>>

PreviewShown(c) ==
    /\ c.op = "preview" /\ c.at = "done"
    /\ mailCalls' = mailCalls \ {c}
    /\ preview' = [shown |-> TRUE, audience |-> c.audience]
    /\ crossedPreview' = (c.filters # filters)
    /\ UNCHANGED <<world, filters, mailed, inbox, changedWorld, retried, wronged>>

\* send_broadcast writes to whoever matches by now.
SendBroadcast(c) ==
    /\ c.op = "send" /\ c.at = "sent"
    /\ LET reached == Audience(c.filters)
       IN /\ inbox' = [p \in Recipient |-> inbox[p] + IF p \in reached THEN 1 ELSE 0]
          /\ wronged' = (wronged \/ ~(reached \subseteq c.audience \/ c.crossed \/ changedWorld))
    /\ mailCalls' = (mailCalls \ {c}) \cup {[c EXCEPT !.at = "done"]}
    /\ UNCHANGED <<world, filters, preview, mailed, crossedPreview, changedWorld, retried>>

\* The text is cleared: whatever is sent next is another one.
SentShown(c) ==
    /\ c.op = "send" /\ c.at = "done"
    /\ mailCalls' = mailCalls \ {c}
    /\ preview' = NoPreview
    /\ inbox' = [p \in Recipient |-> 0]
    /\ UNCHANGED <<world, filters, mailed, crossedPreview, changedWorld, retried, wronged>>

\* An error, before or after the effect; the page stays as it was.
MailFails(c) ==
    /\ ~retried
    /\ mailCalls' = mailCalls \ {c}
    /\ retried' = (c.op = "send" /\ c.at = "done")
    /\ UNCHANGED <<world, filters, preview, mailed, inbox, crossedPreview, changedWorld, wronged>>

PersonChanges(p, s) ==
    /\ ~changedWorld
    /\ world' = [world EXCEPT ![p].status = s]
    /\ changedWorld' = TRUE
    /\ UNCHANGED <<filters, preview, mailCalls, mailed, inbox, crossedPreview, retried, wronged>>

MailNext ==
    \/ HandlePreview \/ HandleSend
    \/ \E r \in MailRole : ToggleRole(r)
    \/ \E s \in MailStatus : ToggleStatus(s)
    \/ ApplyPreset({"reviewer"}, {}) \/ ApplyPreset({}, {"notified"}) \/ ApplyPreset({"submitter"}, {})
    \/ \E c \in mailCalls :
          \/ PreviewAudience(c) \/ PreviewShown(c) \/ SendBroadcast(c) \/ SentShown(c) \/ MailFails(c)
    \/ \E p \in Recipient, s \in MailStatus : PersonChanges(p, s)

MailSpec == MailInit /\ [][MailNext]_mailVars

-------------------------------------------------------------------------------
(* Nobody is written to who was not counted in the preview the sender         *)
(* confirmed: "any filter change invalidates a prior preview", unless the     *)
(* filters were changed while a preview was on its way, whose answer then     *)
(* appears under the new ones, or somebody's role or status changed.          *)
OnlyThePreviewed == ~wronged

(* Nobody gets one text twice, unless the answer to a sending was lost and it *)
(* was sent again: the page says that it failed.                              *)
OncePerText == ~retried => \A p \in Recipient : inbox[p] <= 1
===============================================================================
