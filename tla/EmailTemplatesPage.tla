--------------------------- MODULE EmailTemplatesPage -------------------------
(***************************************************************************)
(* The page of the texts of the mails: each is edited in a card of its own *)
(* and saved whole.  The page remembers one alias that is being saved, so  *)
(* saving another one enables the button of the first again.               *)
(***************************************************************************)
EXTENDS Naturals

CONSTANTS
    Alias,        \* the kinds of mail
    Wording,      \* what an administrator may type
    Original,     \* what a text is before
    MaxPuts       \* bound: saves begun

ASSUME OriginalAssumption == Original \notin Wording

NoAlias == "no alias"

VARIABLES
    wording,        \* email_templates
    texts,          \* setTemplates: the texts as the page knows them
    edits,          \* setEdits: what is in the fields
    saving2,        \* setSaving
    puts, putCount, \* saves on their way; saves begun
    retyped,          \* the aliases typed in, or discarded, since they were last saved
    doubled,        \* two saves of the alias were on their way at once
    failedPut       \* a save failed, or its answer was lost

textVars == <<wording, texts, edits, saving2, puts, putCount, retyped, doubled, failedPut>>

TextsInit ==
    /\ wording = [a \in Alias |-> Original] /\ texts = wording /\ edits = wording
    /\ saving2 = NoAlias
    /\ puts = {} /\ putCount = 0
    /\ retyped = {} /\ doubled = {} /\ failedPut = FALSE

IsDirty(a) == edits[a] # texts[a]

Type(a, w) ==
    /\ edits[a] # w /\ edits' = [edits EXCEPT ![a] = w]
    /\ retyped' = retyped \cup {a}
    /\ UNCHANGED <<wording, texts, saving2, puts, putCount, doubled, failedPut>>

\* Discard changes: back to the text as the page knows it.
HandleReset(a) ==
    /\ IsDirty(a) /\ edits' = [edits EXCEPT ![a] = texts[a]]
    /\ retyped' = retyped \cup {a}
    /\ UNCHANGED <<wording, texts, saving2, puts, putCount, doubled, failedPut>>

HandleSaveText(a) ==
    /\ IsDirty(a) /\ saving2 # a
    /\ putCount < MaxPuts /\ putCount' = putCount + 1
    /\ saving2' = a
    /\ puts' = puts \cup {[n |-> putCount, alias |-> a, text |-> edits[a], at |-> "sent"]}
    /\ retyped' = retyped \ {a}
    /\ doubled' = IF \E p \in puts : p.alias = a THEN doubled \cup {a} ELSE doubled
    /\ UNCHANGED <<wording, texts, edits, failedPut>>

UpdateEmailTemplate(p) ==
    /\ p.at = "sent"
    /\ wording' = [wording EXCEPT ![p.alias] = p.text]
    /\ puts' = (puts \ {p}) \cup {[p EXCEPT !.at = "done"]}
    /\ UNCHANGED <<texts, edits, saving2, putCount, retyped, doubled, failedPut>>

\* The answer replaces the text it is about in the list as it is by now.
FieldByNow(p) == [texts EXCEPT ![p.alias] = edits[p.alias]]
WithUpdated(p) == [texts EXCEPT ![p.alias] = p.text]

TextSaved(p) ==
    /\ p.at = "done"
    /\ texts' = WithUpdated(p)
    /\ saving2' = NoAlias
    /\ puts' = puts \ {p}
    /\ UNCHANGED <<wording, edits, putCount, retyped, doubled, failedPut>>

TextNotSaved(p) ==
    /\ ~failedPut /\ failedPut' = TRUE
    /\ saving2' = NoAlias
    /\ puts' = puts \ {p}
    /\ UNCHANGED <<wording, texts, edits, putCount, retyped, doubled>>

TextsNext ==
    \/ \E a \in Alias : HandleReset(a) \/ HandleSaveText(a) \/ \E w \in Wording : Type(a, w)
    \/ \E p \in puts : UpdateEmailTemplate(p) \/ TextSaved(p) \/ TextNotSaved(p)

TextsSpec == TextsInit /\ [][TextsNext]_textVars

-------------------------------------------------------------------------------
(* When nothing is on its way the page takes for the text of a mail what the  *)
(* mail is sent with, and marks as unsaved only what was typed or discarded   *)
(* since: unless a save failed, or two saves of that mail met.                *)
TextsSettle ==
    (puts = {} /\ ~failedPut) => \A a \in Alias \ doubled :
        texts[a] = wording[a] /\ (IsDirty(a) => a \in retyped)
===============================================================================
