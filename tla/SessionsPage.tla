------------------------------ MODULE SessionsPage -----------------------------
(***************************************************************************)
(* The list of sessions and parallel blocks, and the dialog that deletes   *)
(* one.  The dialog asks the server what a deletion would do and offers    *)
(* the administrator the fate of the abstracts that are past assignment;   *)
(* the deletion applies that fate to whatever it finds.                    *)
(***************************************************************************)
EXTENDS Naturals, FiniteSets

CONSTANTS
    Single, Block,   \* sessions of their own; parallel blocks with their columns
    Booked,          \* abstracts that may be in a slot of one of them
    MaxActs          \* operations begun

Item == Single \cup Block
NoItem == "no item"

ASSUME SessionsAssumption == Single \cap Block = {} /\ NoItem \notin Item

VARIABLES
    present, public,   \* the items there are, and those published
    place, rank,       \* the item of each abstract, and how far it has come
    revision,          \* how often the items were changed
    listed,            \* sessions and groups, as the page shows them
    toggling,          \* the one item whose button shows a spinner
    dialog,            \* the state of DeleteSessionDialog
    acts, begunActs,   \* requests on their way; operations begun
    overtaken2,        \* an older answer replaced what a newer one had shown
    unseen,            \* a change this page was not told of
    moved,             \* an abstract moved on while a deletion was considered
    unnamed            \* a deletion decided the fate of an abstract it had not named

pageVars == <<present, public, place, rank, revision, listed, toggling, dialog, acts, begunActs,
              overtaken2, unseen, moved, unnamed>>
server == <<present, public, place, rank, revision>>
flags == <<overtaken2, unseen, moved, unnamed>>

NotAsked == [asked |-> FALSE, named |-> {}]
In(i) == {t \in Booked : place[t] = i}
Advanced(i) == {t \in In(i) : rank[t] = "advanced"}

NotRead == [present |-> {}, public |-> {}, revision |-> 0]
Listed == [present |-> present, public |-> public, revision |-> revision]

\* Nothing is published yet; an abstract may have been notified already.
SessionsInit ==
    /\ present \in SUBSET Item /\ Single \subseteq present
    /\ public = {}
    /\ place \in [Booked -> present]
    /\ rank \in [Booked -> {"assigned", "advanced"}]
    /\ revision = 0
    /\ listed = Listed
    /\ toggling = NoItem
    /\ dialog = [target |-> NoItem, question |-> 0, impact |-> NotAsked, loading |-> FALSE,
                 deleting |-> FALSE, choice |-> "decided", stale |-> FALSE]
    /\ acts = {} /\ begunActs = 0
    /\ overtaken2 = FALSE /\ unseen = FALSE /\ moved = FALSE /\ unnamed = FALSE

Request(op, i) ==
    [n |-> begunActs, op |-> op, item |-> i, at |-> "sent", got |-> {}, view |-> NotRead,
     impact |-> NotAsked, fate |-> "decided", excused |-> FALSE]

Issue(r) == begunActs < MaxActs /\ begunActs' = begunActs + 1 /\ acts' = acts \cup {r}
Replace(r, s) == acts' = (acts \ {r}) \cup s

-------------------------------------------------------------------------------
(* What the administrator does. *)

HandleTogglePublish(i) ==
    /\ i \in listed.present /\ toggling # i
    /\ Issue([Request("publish", i) EXCEPT !.fate = IF i \in listed.public THEN "hidden" ELSE "public"])
    /\ toggling' = i
    /\ UNCHANGED <<server, listed, dialog, flags>>

\* ParallelBlockDialog creates a block, one at a time (saving).
CreateBlock(i) ==
    /\ i \in Block \ listed.present /\ ~\E r \in acts : r.op = "create"
    /\ Issue(Request("create", i))
    /\ UNCHANGED <<server, listed, toggling, dialog, flags>>

\* The effect of the dialog on another target.
KeepImpact(d) == d.impact
ForgetImpact(d) == NotAsked

OpenDelete(i) ==
    /\ i \in listed.present /\ dialog.target = NoItem
    /\ Issue(Request("impact", i))
    /\ dialog' = [dialog EXCEPT !.target = i, !.question = begunActs, !.choice = "decided",
                                !.impact = ForgetImpact(dialog), !.loading = TRUE,
                                !.stale = FALSE]
    /\ UNCHANGED <<server, listed, toggling, flags>>

CloseDialog ==
    /\ dialog.target # NoItem
    /\ dialog' = [dialog EXCEPT !.target = NoItem]
    /\ UNCHANGED <<server, listed, toggling, acts, begunActs, flags>>

ChooseFate ==
    /\ dialog.target # NoItem /\ dialog.impact.named # {} /\ ~dialog.loading
    /\ dialog' = [dialog EXCEPT !.choice = IF @ = "decided" THEN "withdrawn" ELSE "decided"]
    /\ UNCHANGED <<server, listed, toggling, acts, begunActs, flags>>

\* Without advanced abstracts no fate is sent, and the server takes "decided".
HandleConfirm ==
    /\ dialog.target # NoItem /\ ~dialog.loading /\ ~dialog.deleting
    /\ Issue([Request("delete", dialog.target) EXCEPT
                  !.impact = dialog.impact,
                  !.fate = IF dialog.impact.named # {} THEN dialog.choice ELSE "decided",
                  !.excused = dialog.stale \/ ~dialog.impact.asked])
    /\ dialog' = [dialog EXCEPT !.deleting = TRUE]
    /\ UNCHANGED <<server, listed, toggling, flags>>

-------------------------------------------------------------------------------
(* The server. *)

ServePublish(r) ==
    /\ r.op = "publish" /\ r.at = "sent" /\ r.item \in present
    /\ public' = IF r.fate = "public" THEN public \cup {r.item} ELSE public \ {r.item}
    /\ revision' = revision + 1
    /\ Replace(r, {[r EXCEPT !.at = "done", !.view.revision = revision + 1]})
    /\ UNCHANGED <<present, place, rank, listed, toggling, dialog, begunActs, flags>>

ServeCreate(r) ==
    /\ r.op = "create" /\ r.at = "sent" /\ r.item \notin present
    /\ present' = present \cup {r.item} /\ revision' = revision + 1
    /\ Replace(r, {[r EXCEPT !.at = "done"]})
    /\ UNCHANGED <<public, place, rank, listed, toggling, dialog, begunActs, flags>>

\* get_deletion_impact and get_group_deletion_impact.
ServeImpact(r) ==
    /\ r.op = "impact" /\ r.at = "sent" /\ r.item \in present
    /\ Replace(r, {[r EXCEPT !.at = "done",
                             !.impact = [asked |-> TRUE, named |-> Advanced(r.item)]]})
    /\ UNCHANGED <<server, listed, toggling, dialog, begunActs, flags>>

\* delete_session and delete_group.
ServeDelete(r) ==
    /\ r.op = "delete" /\ r.at = "sent" /\ r.item \in present
    /\ present' = present \ {r.item} /\ public' = public \ {r.item}
    /\ revision' = revision + 1
    /\ place' = [t \in Booked |-> IF place[t] = r.item THEN NoItem ELSE place[t]]
    /\ rank' = [t \in Booked |->
                   IF t \in Advanced(r.item) THEN r.fate
                   ELSE IF t \in In(r.item) THEN "decided" ELSE rank[t]]
    /\ unnamed' = (unnamed \/ ~(\/ Advanced(r.item) \subseteq r.impact.named
                                \/ r.excused \/ moved))
    /\ Replace(r, {[r EXCEPT !.at = "done"]})
    /\ UNCHANGED <<listed, toggling, dialog, begunActs, overtaken2, unseen, moved>>

\* The two requests of load().
ServeList(r, part) ==
    /\ r.op = "load" /\ r.at = "sent" /\ part \notin r.got
    /\ Replace(r, {[r EXCEPT
           !.got = @ \cup {part},
           !.view = [present |-> (@.present \ part) \cup (present \cap part),
                     public |-> (@.public \ part) \cup (public \cap part),
                     revision |-> IF r.got = {} THEN revision ELSE @.revision],
           !.at = IF r.got \cup {part} = {Single, Block} THEN "done" ELSE "sent"]})
    /\ UNCHANGED <<server, listed, toggling, dialog, begunActs, flags>>

\* Refused because the item is gone or there already, or no answer comes.
Refuse(r) ==
    /\ r.at \in {"sent", "done"}
    /\ \/ r.at = "sent" /\ r.op \notin {"load", "create"} /\ r.item \notin present /\ UNCHANGED unseen
       \/ r.at = "sent" /\ r.op = "create" /\ r.item \in present /\ UNCHANGED unseen
       \/ ~unseen /\ unseen' = TRUE
    /\ Replace(r, {[r EXCEPT !.at = "refused"]})
    /\ UNCHANGED <<server, listed, toggling, dialog, begunActs, overtaken2, moved, unnamed>>

\* Somebody notifies or confirms an abstract.
MoveOn(t) ==
    /\ place[t] # NoItem /\ rank[t] = "assigned"
    /\ rank' = [rank EXCEPT ![t] = "advanced"]
    /\ moved' = TRUE
    /\ UNCHANGED <<present, public, place, revision, listed, toggling, dialog, acts, begunActs,
                   overtaken2, unseen, unnamed>>

-------------------------------------------------------------------------------
(* The answers. *)

Reload(r) == {[Request("load", NoItem) EXCEPT !.n = r.n]}

LeftShown(r) == {}
AfterBlock(r) == Reload(r)

\* A session's own answer replaces it in the list; for a block the list is loaded.
PublishAnswered(r) ==
    /\ r.op = "publish" /\ r.at = "done"
    /\ toggling' = NoItem
    /\ \/ /\ r.item \in Single
          /\ listed' = [listed EXCEPT
                 !.public = IF r.fate = "public" THEN @ \cup ({r.item} \cap listed.present)
                            ELSE @ \ {r.item},
                 !.revision = IF r.view.revision > @ THEN r.view.revision ELSE @]
          /\ overtaken2' = (overtaken2 \/ r.view.revision < listed.revision)
          /\ Replace(r, {})
       \/ /\ r.item \in Block
          /\ Replace(r, AfterBlock(r))
          /\ UNCHANGED <<listed, overtaken2>>
    /\ UNCHANGED <<server, dialog, begunActs, unseen, moved, unnamed>>

CreateAnswered(r) ==
    /\ r.op = "create" /\ r.at = "done"
    /\ Replace(r, Reload(r))
    /\ UNCHANGED <<server, listed, toggling, dialog, begunActs, flags>>

LoadAnswered(r) ==
    /\ r.op = "load" /\ r.at = "done"
    /\ overtaken2' = (r.view.revision < listed.revision)
    /\ listed' = [r.view EXCEPT !.revision =
                     IF @ > listed.revision THEN @ ELSE listed.revision]
    /\ Replace(r, {})
    /\ UNCHANGED <<server, toggling, dialog, begunActs, unseen, moved, unnamed>>

\* Whatever the dialog is about by now.
ImpactAnswered(r) ==
    /\ r.op = "impact" /\ r.at = "done"
    /\ dialog' = [dialog EXCEPT !.impact = r.impact, !.loading = FALSE,
                                !.stale = r.n # dialog.question]
    /\ Replace(r, {})
    /\ UNCHANGED <<server, listed, toggling, begunActs, flags>>

\* onDeleted loads the list and the dialog closes, whatever it is about by now.
DeleteAnswered(r) ==
    /\ r.op = "delete" /\ r.at = "done"
    /\ dialog' = [dialog EXCEPT !.deleting = FALSE, !.target = NoItem]
    /\ Replace(r, Reload(r))
    /\ UNCHANGED <<server, listed, toggling, begunActs, flags>>

ErrorShown(r) ==
    /\ r.at = "refused"
    /\ Replace(r, {})
    /\ toggling' = IF r.op = "publish" THEN NoItem ELSE toggling
    /\ dialog' = [dialog EXCEPT !.loading = @ /\ r.op # "impact",
                                !.deleting = @ /\ r.op # "delete",
                                !.stale = @ \/ (r.op = "impact" /\ r.n # dialog.question)]
    /\ unseen' = TRUE
    /\ UNCHANGED <<server, listed, begunActs, overtaken2, moved, unnamed>>

SessionsNext ==
    \/ CloseDialog \/ ChooseFate \/ HandleConfirm
    \/ \E i \in Item : HandleTogglePublish(i) \/ CreateBlock(i) \/ OpenDelete(i)
    \/ \E t \in Booked : MoveOn(t)
    \/ \E r \in acts :
          \/ ServePublish(r) \/ ServeCreate(r) \/ ServeImpact(r) \/ ServeDelete(r)
          \/ ServeList(r, Single) \/ ServeList(r, Block)
          \/ Refuse(r) \/ PublishAnswered(r) \/ CreateAnswered(r) \/ LoadAnswered(r)
          \/ ImpactAnswered(r) \/ DeleteAnswered(r) \/ ErrorShown(r)

SessionsSpec == SessionsInit /\ [][SessionsNext]_pageVars

-------------------------------------------------------------------------------
(* No abstract past assignment is sent back or withdrawn by a deletion that    *)
(* did not name it in the dialog: unless the dialog showed the answer to an    *)
(* earlier question, had none because the request failed (its button works     *)
(* without), or the abstract moved on in the meantime.                         *)
FateWasNamed == ~unnamed

(* When nothing is on its way the list shows the items there are and which of *)
(* them are published: unless a request failed, or an answer older than what  *)
(* the page had already shown came last.                                      *)
ListSettles ==
    (acts = {} /\ ~unseen /\ ~overtaken2) =>
        listed.present = present /\ listed.public = public
===============================================================================
