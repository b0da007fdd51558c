------------------------------- MODULE MCProgram -------------------------------
(***************************************************************************)
(* The program of the conference: the line-up of one session, the requests *)
(* that place sessions in rooms and blocks, and the check of a day.  Which *)
(* of the three is looked at is chosen once; the others' states are fixed. *)
(***************************************************************************)
EXTENDS SessionSlots, ProgramSchedule, ProgramCheck, TLC

CONSTANTS i1, i2, i3, i4

VARIABLE part

Orders == -1..6
SlotSymmetry == Permutations({i1, i2, i3, i4})

ProgramInit ==
    /\ part \in {"line-up", "schedule", "check"}
    /\ part = "line-up" \/ maxSlots = 0
    /\ part = "schedule" \/ live = {}
    /\ part = "check" \/ calendar = [x \in Planned |-> [start |-> 0, end |-> 1, block |-> Alone]]
    /\ Init /\ ScheduleInit /\ CheckInit

ProgramNext ==
    /\ IF part = "line-up" THEN Next ELSE UNCHANGED vars
    /\ IF part = "schedule" THEN ScheduleNext ELSE UNCHANGED scheduleVars
    /\ UNCHANGED <<part, calendar>>

ProgramSpec == ProgramInit /\ [][ProgramNext]_<<part, vars, scheduleVars, calendar>>

(* The check of a day's program tells its gaps and its overlaps, no more and  *)
(* no less.                                                                   *)
DayChecked == part = "check" => ProgramChecked
===============================================================================
