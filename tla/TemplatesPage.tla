----------------------------- MODULE TemplatesPage ----------------------------
(***************************************************************************)
(* The page of program templates: the list, saving the current program,    *)
(* importing a file, deleting, and the dialog that applies a template.     *)
(* Saving and applying share one flag that disables both buttons; the      *)
(* dialogs may be closed while a request is on its way, and importing and  *)
(* deleting are not disabled at all.                                       *)
(***************************************************************************)
EXTENDS Naturals, FiniteSets

CONSTANTS
    Template,      \* identifiers
    MaxOrders      \* requests begun on the page

NoTemplate == "no template"

VARIABLES
    stock, stockAt,     \* program_templates, and how often they were changed
    shelf, shelfAt,     \* setTemplates, and how new what it shows is
    busy,               \* setBusy
    saveOpen, applyTarget,
    orders, ordered,    \* requests on their way; requests begun
    opening, applied3,  \* the opening of the dialog, and how often it was applied
    olderShelf,         \* a list older than what was shown came last
    unheard             \* the answer to a change was lost

templateVars == <<stock, stockAt, shelf, shelfAt, busy, saveOpen, applyTarget, orders, ordered,
                  opening, applied3, olderShelf, unheard>>
onServer == <<stock, stockAt>>
onPage == <<shelf, shelfAt, busy, saveOpen, applyTarget, olderShelf>>

TemplatesInit ==
    /\ stock \in SUBSET Template /\ stockAt = 0
    /\ shelf = stock /\ shelfAt = 0
    /\ busy = FALSE /\ saveOpen = FALSE /\ applyTarget = NoTemplate
    /\ orders = {} /\ ordered = 0
    /\ opening = 0 /\ applied3 = 0
    /\ olderShelf = FALSE /\ unheard = FALSE

Order(n, op, t) ==
    [n |-> n, op |-> op, template |-> t, opening |-> opening, at |-> "sent", seen |-> {}, seenAt |-> 0]
Place(op, t) ==
    /\ ordered < MaxOrders /\ ordered' = ordered + 1
    /\ orders' = orders \cup {Order(ordered, op, t)}
    /\ UNCHANGED <<onServer, opening, applied3, unheard>>

-------------------------------------------------------------------------------
(* What the administrator does. *)

OpenSave(open) ==
    /\ saveOpen' = open /\ open # saveOpen
    /\ UNCHANGED <<onServer, shelf, shelfAt, busy, applyTarget, olderShelf, orders, ordered, opening,
                   applied3, unheard>>

\* Each opening is a decision of its own.
OpenApply(t) ==
    /\ applyTarget = NoTemplate /\ t \in shelf /\ opening < MaxOrders
    /\ applyTarget' = t /\ opening' = opening + 1 /\ applied3' = 0
    /\ UNCHANGED <<onServer, shelf, shelfAt, busy, saveOpen, olderShelf, orders, ordered, unheard>>
CancelApply ==
    /\ applyTarget # NoTemplate /\ applyTarget' = NoTemplate
    /\ UNCHANGED <<onServer, shelf, shelfAt, busy, saveOpen, olderShelf, orders, ordered, opening,
                   applied3, unheard>>

HandleSaveCurrent ==
    /\ saveOpen /\ ~busy /\ busy' = TRUE
    /\ Place("save", NoTemplate)
    /\ UNCHANGED <<shelf, shelfAt, saveOpen, applyTarget, olderShelf>>
NotBusy == FALSE
Busy == TRUE
HandleApply ==
    /\ applyTarget # NoTemplate /\ ~busy /\ busy' = Busy
    /\ Place("apply", applyTarget)
    /\ UNCHANGED <<shelf, shelfAt, saveOpen, applyTarget, olderShelf>>
HandleImportFile == Place("import", NoTemplate) /\ UNCHANGED onPage
HandleDeleteTemplate(t) == t \in shelf /\ Place("delete", t) /\ UNCHANGED onPage

-------------------------------------------------------------------------------
(* The server. *)

Serve(o, s) == orders' = (orders \ {o}) \cup {s}

ListTemplates(o) ==
    /\ o.op = "list" /\ o.at = "sent"
    /\ Serve(o, [o EXCEPT !.at = "done", !.seen = stock, !.seenAt = stockAt])
    /\ UNCHANGED <<onServer, onPage, ordered, opening, applied3, unheard>>

\* A new identifier is nobody's yet.
Known == stock \cup shelf \cup {applyTarget} \cup UNION {{o.template} \cup o.seen : o \in orders}

Create(o) ==
    /\ o.op \in {"save", "import"} /\ o.at = "sent" /\ ~Template \subseteq Known
    /\ stock' = stock \cup {CHOOSE t \in Template : t \notin Known}
    /\ stockAt' = stockAt + 1
    /\ Serve(o, [o EXCEPT !.at = "done"])
    /\ UNCHANGED <<onPage, ordered, opening, applied3, unheard>>

DeleteTemplate(o) ==
    /\ o.op = "delete" /\ o.at = "sent" /\ o.template \in stock
    /\ stock' = stock \ {o.template} /\ stockAt' = stockAt + 1
    /\ Serve(o, [o EXCEPT !.at = "done", !.seenAt = stockAt + 1])
    /\ UNCHANGED <<onPage, ordered, opening, applied3, unheard>>

\* The sessions of the template are added to the program.
AddSessions(o) ==
    /\ o.op = "apply" /\ o.at = "sent" /\ o.template \in stock
    /\ applied3' = IF o.opening = opening THEN applied3 + 1 ELSE applied3
    /\ Serve(o, [o EXCEPT !.at = "done"])
    /\ UNCHANGED <<onServer, onPage, ordered, opening, unheard>>

\* Refused since the template is gone, or since there is nothing to save or import.
RefuseOrder(o) ==
    /\ o.at = "sent" /\ o.op # "list"
    /\ o.op \in {"delete", "apply"} => o.template \notin stock
    /\ Serve(o, [o EXCEPT !.at = "refused"])
    /\ UNCHANGED <<onServer, onPage, ordered, opening, applied3, unheard>>
LoseAnswer(o) ==
    /\ ~unheard /\ unheard' = TRUE
    /\ Serve(o, [o EXCEPT !.at = "refused"])
    /\ UNCHANGED <<onServer, onPage, ordered, opening, applied3>>

-------------------------------------------------------------------------------
(* The answers. *)

BusyAfter(o) == IF o.op \in {"save", "apply"} THEN FALSE ELSE busy
NoList(o) == {}
ThenList(o) == {Order(o.n, "list", NoTemplate)}

CreateShown(o) ==
    /\ o.op \in {"save", "import"} /\ o.at = "done"
    /\ orders' = (orders \ {o}) \cup ThenList(o)
    /\ busy' = BusyAfter(o) /\ saveOpen' = (saveOpen /\ o.op # "save")
    /\ UNCHANGED <<onServer, shelf, shelfAt, applyTarget, olderShelf, ordered, opening, applied3,
                   unheard>>

ListShown(o) ==
    /\ o.op = "list" /\ o.at = "done"
    /\ orders' = orders \ {o}
    /\ shelf' = o.seen /\ olderShelf' = (o.seenAt < shelfAt)
    /\ shelfAt' = IF o.seenAt > shelfAt THEN o.seenAt ELSE shelfAt
    /\ UNCHANGED <<onServer, busy, saveOpen, applyTarget, ordered, opening, applied3, unheard>>

\* The template is filtered out of the list as it is by now.
DeleteShown(o) ==
    /\ o.op = "delete" /\ o.at = "done"
    /\ orders' = orders \ {o}
    /\ shelf' = shelf \ {o.template}
    /\ shelfAt' = IF o.seenAt > shelfAt THEN o.seenAt ELSE shelfAt
    /\ UNCHANGED <<onServer, busy, saveOpen, applyTarget, olderShelf, ordered, opening, applied3,
                   unheard>>

\* The dialog that is open by now is closed, whichever template it is about.
AppliedShown(o) ==
    /\ o.op = "apply" /\ o.at = "done"
    /\ orders' = orders \ {o}
    /\ busy' = BusyAfter(o) /\ applyTarget' = NoTemplate
    /\ UNCHANGED <<onServer, shelf, shelfAt, saveOpen, olderShelf, ordered, opening, applied3,
                   unheard>>

\* A toast; a template that is gone stays in the list.
OrderFailed(o) ==
    /\ o.at = "refused"
    /\ orders' = orders \ {o}
    /\ busy' = BusyAfter(o)
    /\ UNCHANGED <<onServer, shelf, shelfAt, saveOpen, applyTarget, olderShelf, ordered, opening,
                   applied3, unheard>>

TemplatesNext ==
    \/ \E open \in BOOLEAN : OpenSave(open)
    \/ \E t \in Template : OpenApply(t) \/ HandleDeleteTemplate(t)
    \/ CancelApply \/ HandleSaveCurrent \/ HandleApply \/ HandleImportFile
    \/ \E o \in orders :
          \/ ListTemplates(o) \/ Create(o) \/ DeleteTemplate(o) \/ AddSessions(o)
          \/ RefuseOrder(o) \/ LoseAnswer(o)
          \/ CreateShown(o) \/ ListShown(o) \/ DeleteShown(o) \/ AppliedShown(o) \/ OrderFailed(o)

TemplatesSpec == TemplatesInit /\ [][TemplatesNext]_templateVars

-------------------------------------------------------------------------------
(* When nothing is on its way the list shows the templates there are, unless  *)
(* an answer was lost, or a list older than a deletion the page had shown     *)
(* came after it.                                                             *)
TemplatesSettle == (orders = {} /\ ~unheard /\ ~olderShelf) => shelf = stock

(* A dialog, once opened, adds the template's sessions to the program at most *)
(* once, unless the answer was lost and it was pressed again.                 *)
AppliedOnce == applied3 <= 1 \/ unheard
===============================================================================
