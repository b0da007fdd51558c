--------------------------- MODULE SettingsDeadlines --------------------------
(***************************************************************************)
(* A deadline in the form of the settings, in the browsers of several      *)
(* administrators in several time zones.  The server keeps an instant and  *)
(* sends it as UTC; the field shows what it was sent without its zone, and *)
(* a save reads the field as local time.  Every save sends every deadline, *)
(* typed or not.  Instants are hours; the types are in SettingsForm.       *)
(***************************************************************************)
EXTENDS Integers

CONSTANTS
    Browser,     \* administrators with the page open
    Offset,      \* hours a browser is ahead of UTC
    Wall,        \* what is typed in the field
    MaxSends     \* bound: saves begun

ASSUME DeadlineAssumption == Offset \subseteq Int /\ Wall \subseteq Int

NoDate == [set |-> FALSE, hour |-> 0]
Date(h) == [set |-> TRUE, hour |-> h]

VARIABLES
    deadline,    \* conference_settings.submission_deadline
    zone,        \* the offset of each browser
    dates,       \* the form of each browser
    sends,       \* saves so far
    intended,    \* the instant that was meant by whoever last typed it and saved
    carried      \* a save sent a date nobody had typed, from elsewhere than UTC or an old form

dateVars == <<deadline, zone, dates, sends, intended, carried>>

\* byHand: the field was typed in since the page opened; typed: since it was last saved.
Unsent == [date |-> NoDate, meant |-> NoDate, byHand |-> FALSE]
Closed == [open |-> FALSE, field |-> NoDate, byHand |-> FALSE, typed |-> FALSE, old |-> FALSE,
           saving |-> FALSE, sent |-> Unsent]

DatesInit ==
    /\ deadline \in {NoDate} \cup {Date(w) : w \in Wall} /\ intended = deadline
    /\ zone \in [Browser -> Offset]
    /\ dates = [b \in Browser |-> Closed]
    /\ sends = 0 /\ carried = FALSE

\* formatDateTime drops the "Z".
OpenDates(b) ==
    /\ ~dates[b].saving
    /\ dates' = [dates EXCEPT ![b] = [Closed EXCEPT !.open = TRUE, !.field = deadline]]
    /\ UNCHANGED <<deadline, zone, sends, intended, carried>>

TypeDate(b, d) ==
    /\ dates[b].open /\ dates[b].field # d
    /\ dates' = [dates EXCEPT ![b].field = d, ![b].byHand = TRUE, ![b].typed = TRUE]
    /\ UNCHANGED <<deadline, zone, sends, intended, carried>>

\* new Date(field).toISOString(); an empty field is left out.
AsLocal(b, d) == IF d.set THEN Date(d.hour - zone[b]) ELSE NoDate
AsUtc(b, d) == d
Instant(b, d) == AsLocal(b, d)

SaveDates(b) ==
    LET f == dates[b]
    IN /\ f.open /\ ~f.saving
       /\ sends < MaxSends /\ sends' = sends + 1
       /\ dates' = [dates EXCEPT
              ![b].saving = TRUE, ![b].typed = FALSE,
              ![b].sent = [date |-> Instant(b, f.field), byHand |-> f.byHand,
                           meant |-> IF f.typed THEN AsLocal(b, f.field) ELSE NoDate]]
    /\ UNCHANGED <<deadline, zone, intended, carried>>

\* A save for another field's sake.
Carries(b) == dates[b].sent.date.set /\ ~dates[b].sent.meant.set

\* What is left out is not updated: no save removes a deadline.
PatchDates(b) ==
    LET f == dates[b]
    IN /\ f.saving
       /\ deadline' = IF f.sent.date.set THEN f.sent.date ELSE deadline
       /\ intended' = IF f.sent.meant.set THEN f.sent.meant ELSE intended
       /\ carried' = (carried \/ (Carries(b) /\ ((zone[b] # 0 /\ ~f.sent.byHand) \/ f.old)))
       /\ dates' = [c \in Browser |->
              IF c = b THEN [f EXCEPT !.saving = FALSE, !.sent = Unsent, !.old = FALSE]
              ELSE [dates[c] EXCEPT !.old = @ \/ (dates[c].open /\ f.sent.date.set)]]
    /\ UNCHANGED <<zone, sends>>

\* A type in use was removed in the form, or the request failed.
DatesRefused(b) ==
    LET f == dates[b]
    IN /\ f.saving
       /\ dates' = [dates EXCEPT ![b].saving = FALSE, ![b].sent = Unsent,
                                 ![b].typed = @ \/ f.sent.meant.set]
    /\ UNCHANGED <<deadline, zone, sends, intended, carried>>

DatesNext ==
    \E b \in Browser :
        \/ OpenDates(b) \/ SaveDates(b) \/ PatchDates(b) \/ DatesRefused(b)
        \/ TypeDate(b, NoDate) \/ \E w \in Wall : TypeDate(b, Date(w))

DatesSpec == DatesInit /\ [][DatesNext]_dateVars

-------------------------------------------------------------------------------
(* A deadline is at the instant that was meant by whoever last typed it, in   *)
(* their own time zone, as the page says all times are: unless a save for     *)
(* another field's sake carried it along, from a browser that is not at UTC,  *)
(* where the field shows another instant than it sends, or from a form older  *)
(* than the last change.                                                      *)
DeadlinesKept == ~carried => deadline = intended
===============================================================================
