------------------------------ MODULE SettingsForm -----------------------------
(***************************************************************************)
(* The settings page in the browsers of two administrators.  A form is     *)
(* filled once, when the page loads, and is shown with empty lists if that *)
(* fails; every save sends all of it.  The server writes what it is sent,  *)
(* after refusing to drop a type that is in use: it reads the types in     *)
(* use, then writes the settings, while the creation of a session reads    *)
(* the settings, then writes the session.  One list of types stands for    *)
(* the three the page edits by the same code.                              *)
(***************************************************************************)
EXTENDS Naturals, Sequences, FiniteSets

CONSTANTS
    Editor,        \* administrators with the page open
    Letter,        \* what labels are made of
    MaxLabel,      \* letters of a label
    MaxTyping, MaxSaves

VARIABLES
    types,               \* conference_settings: the list of types
    inUse,               \* the types of existing sessions
    form,                \* the form of each administrator
    typed, saved,        \* edits and saves so far
    wronglyRefused,      \* a rename was refused as a removal
    booking,             \* create_session: the type found in the settings, not yet written
    racedTypes           \* a session was created in the middle of a save, or the reverse

settingsVars == <<types, inUse, form, typed, saved, wronglyRefused, booking, racedTypes>>

Keys(list) == {list[i].key : i \in DOMAIN list}
NoLabel == <<>>

\* A form before the settings have arrived.
NothingSent == [types |-> <<>>, removed |-> FALSE]
Blank == [loaded |-> FALSE, types |-> <<>>, saving |-> FALSE, removed |-> FALSE,
          outdated |-> FALSE, unread |-> FALSE, passed |-> FALSE, sent |-> NothingSent]

SettingsInit ==
    /\ types \in {<<[key |-> <<c>>, label |-> <<c>>]>> : c \in Letter}
    /\ inUse \in SUBSET Keys(types)
    /\ form = [a \in Editor |-> Blank]
    /\ typed = 0 /\ saved = 0
    /\ wronglyRefused = FALSE
    /\ booking = {} /\ racedTypes = FALSE

\* The page opens, or is opened again.
OpenSettings(a) ==
    /\ ~form[a].saving
    /\ form' = [form EXCEPT ![a] = [Blank EXCEPT !.loaded = TRUE, !.types = types]]
    /\ UNCHANGED <<types, inUse, typed, saved, wronglyRefused, booking, racedTypes>>

\* The settings do not arrive: a message goes by, and the form is there, empty.
OpenUnread(a) ==
    /\ ~form[a].saving
    /\ form' = [form EXCEPT ![a] = [Blank EXCEPT !.loaded = TRUE, !.unread = TRUE]]
    /\ UNCHANGED <<types, inUse, typed, saved, wronglyRefused, booking, racedTypes>>

EditForm(a, f) ==
    /\ form[a].loaded /\ typed < MaxTyping
    /\ typed' = typed + 1
    /\ form' = [form EXCEPT ![a] = f]
    /\ UNCHANGED <<types, inUse, saved, wronglyRefused, booking, racedTypes>>

\* The key is made from the label once, by its first letter typed.
KeyOnce(t, label) == IF t.key # <<>> THEN t.key ELSE label
KeyFollows(t, label) == label
KeyFor(t, label) == KeyOnce(t, label)

TypeInLabel(a, i, c) ==
    /\ i \in DOMAIN form[a].types
    /\ LET t == form[a].types[i]
           label == IF Len(t.label) < MaxLabel THEN Append(t.label, c) ELSE <<c>>
       IN EditForm(a, [form[a] EXCEPT !.types[i] = [key |-> KeyFor(t, label), label |-> label]])

ClearLabel(a, i) ==
    /\ i \in DOMAIN form[a].types /\ form[a].types[i].label # NoLabel
    /\ EditForm(a, [form[a] EXCEPT !.types[i].label = NoLabel])

AddType(a) ==
    /\ Len(form[a].types) < 2
    /\ EditForm(a, [form[a] EXCEPT !.types = Append(@, [key |-> <<>>, label |-> NoLabel])])

\* The X of a row: the rows after it move up.
RemoveType(a, i) ==
    /\ i \in DOMAIN form[a].types
    /\ EditForm(a, [form[a] EXCEPT
                    !.types = SubSeq(@, 1, i - 1) \o SubSeq(@, i + 1, Len(@)),
                    !.removed = TRUE])

\* validateTypes.
Validated(list) ==
    /\ \A i \in DOMAIN list : list[i].label # NoLabel /\ list[i].key # <<>>
    /\ \A i, j \in DOMAIN list : list[i].key = list[j].key => i = j

OnSaveSettings(a) ==
    /\ form[a].loaded /\ ~form[a].saving
    /\ Validated(form[a].types)
    /\ saved < MaxSaves /\ saved' = saved + 1
    /\ form' = [form EXCEPT ![a].saving = TRUE,
                             ![a].sent = [types |-> form[a].types, removed |-> form[a].removed]]
    /\ UNCHANGED <<types, inUse, typed, wronglyRefused, booking, racedTypes>>

\* _guard_type_removal.
RemovalGuard(list) == inUse \subseteq Keys(list)
NoGuard(list) == TRUE
GuardTypeRemoval(list) == RemovalGuard(list)

GuardPasses(a) ==
    /\ form[a].saving /\ ~form[a].passed /\ GuardTypeRemoval(form[a].sent.types)
    /\ form' = [form EXCEPT ![a].passed = TRUE]
    /\ UNCHANGED <<types, inUse, typed, saved, wronglyRefused, booking, racedTypes>>

PatchSettings(a) ==
    /\ form[a].passed
    /\ types' = form[a].sent.types
    /\ form' = [b \in Editor |-> [form[b] EXCEPT
                    !.saving = @ /\ b # a, !.passed = @ /\ b # a,
                    !.sent = IF b = a THEN NothingSent ELSE @,
                    !.outdated = @ \/ (b # a /\ form[b].loaded)]]
    /\ racedTypes' = (racedTypes \/ booking # {})
    /\ UNCHANGED <<inUse, typed, saved, wronglyRefused, booking>>

RefuseSettings(a) ==
    /\ form[a].saving /\ ~form[a].passed /\ ~GuardTypeRemoval(form[a].sent.types)
    /\ form' = [form EXCEPT ![a].saving = FALSE, ![a].sent = NothingSent]
    /\ wronglyRefused' = (wronglyRefused
                          \/ ~(form[a].sent.removed \/ form[a].outdated \/ form[a].unread))
    /\ UNCHANGED <<types, inUse, typed, saved, booking, racedTypes>>

\* create_session finds the type in the settings ...
CheckType(k) ==
    /\ booking = {} /\ k \in Keys(types) \ inUse
    /\ booking' = {k}
    /\ UNCHANGED <<types, inUse, form, typed, saved, wronglyRefused, racedTypes>>

\* ... and commits the session.
UseType ==
    /\ booking # {}
    /\ inUse' = inUse \cup booking /\ booking' = {}
    /\ racedTypes' = (racedTypes \/ \E a \in Editor : form[a].passed)
    /\ UNCHANGED <<types, form, typed, saved, wronglyRefused>>

SettingsNext ==
    \/ \E a \in Editor :
          \/ OpenSettings(a) \/ OpenUnread(a) \/ AddType(a) \/ OnSaveSettings(a)
          \/ GuardPasses(a) \/ PatchSettings(a) \/ RefuseSettings(a)
          \/ \E i \in DOMAIN form[a].types :
                \/ ClearLabel(a, i) \/ RemoveType(a, i)
                \/ \E c \in Letter : TypeInLabel(a, i, c)
    \/ UseType \/ \E k \in Keys(types) : CheckType(k)

SettingsSpec == SettingsInit /\ [][SettingsNext]_settingsVars

-------------------------------------------------------------------------------
(* Every type a session has is configured, whatever two administrators save   *)
(* from forms that were loaded before the session was created or before the   *)
(* other one saved, unless a save and the creation of a session overlap: the  *)
(* one reads what the other is about to write.                                *)
InUseConfigured == ~racedTypes => inUse \subseteq Keys(types)

(* Renaming a type in use is never refused as its removal: the key of an      *)
(* entry does not change with its label, through any sequence of edits; a     *)
(* save is refused only if an entry was removed in the form, if the form was  *)
(* shown empty because the settings could not be read, if another             *)
(* administrator saved after it was loaded, or if a save and the creation of  *)
(* a session overlapped and left a type in use out of the settings.           *)
RenamesAccepted == ~racedTypes => ~wronglyRefused
===============================================================================
