----------------------------- MODULE ProgramCheck ------------------------------
(***************************************************************************)
(* check_program over the sessions of one day: the stretches between them  *)
(* that no session covers, and the pairs of sessions at the same time that *)
(* are not columns of one block.                                           *)
(***************************************************************************)
EXTENDS Naturals, FiniteSets, Sequences

CONSTANTS
    Planned,      \* the sessions of the day
    LastHour,     \* bound: times are 0 .. LastHour
    Parallel      \* parallel blocks

ASSUME CheckAssumption == IsFiniteSet(Planned) /\ LastHour \in Nat

Alone == "no block"
Hour == 0 .. LastHour

VARIABLE calendar   \* the day as the query returns it

CheckInit == calendar \in [Planned -> [start : Hour, end : Hour, block : Parallel \cup {Alone}]]

\* The day's sessions, by start and then by end: sort() leaves open only the order
\* of sessions that start and end together.
Before(x, y) ==
    LET a == calendar[x]
        b == calendar[y]
    IN a.start < b.start \/ (a.start = b.start /\ a.end <= b.end)
CheckedSessions == Cardinality(Planned)
InOrder ==
    CHOOSE day \in [1 .. CheckedSessions -> Planned] :
        \A i, j \in 1 .. CheckedSessions : i < j => day[i] # day[j] /\ Before(day[i], day[j])

\* Gaps: the intervals are merged into covered spans, and what is between is reported.
Span(from, to) == [start |-> from, end |-> to]
ExtendedToNext(span, s) == [span EXCEPT !.end = s.end]
Extended(span, s) == [span EXCEPT !.end = IF s.end > @ THEN s.end ELSE @]

Merge(spans, x) ==
    LET s == calendar[x]
        last == Len(spans)
    IN IF last > 0 /\ s.start <= spans[last].end
       THEN [spans EXCEPT ![last] = Extended(@, s)]
       ELSE Append(spans, Span(s.start, s.end))

\* The covered spans after each turn of the loop.
SpansAfter[k \in 0 .. CheckedSessions] ==
    IF k = 0 THEN <<>> ELSE Merge(SpansAfter[k - 1], InOrder[k])
Merged == SpansAfter[CheckedSessions]
Gaps ==
    LET spans == Merged IN {Span(spans[i].end, spans[i + 1].start) : i \in 1 .. Len(spans) - 1}

\* Overlaps: the inner loop stops at the first session that starts after the outer one.
SameBlock(a, b) == a.block # Alone /\ a.block = b.block

Overlap(day, i, j) ==
    LET a == calendar[day[i]]
        b == calendar[day[j]]
    IN /\ \A k \in i + 1 .. j : calendar[day[k]].start < a.end
       /\ ~SameBlock(a, b)
       /\ b.start < a.end /\ b.start < b.end

Overlaps ==
    LET day == InOrder
        pairs == {p \in (DOMAIN day) \X (DOMAIN day) : p[1] < p[2] /\ Overlap(day, p[1], p[2])}
    IN {<<day[p[1]], day[p[2]]>> : p \in pairs}

-------------------------------------------------------------------------------
(* The hours, one by one. *)
Covers(x, h) == calendar[x].start <= h /\ h < calendar[x].end

(* The check reports exactly the hours after some session and before another *)
(* that no session covers, as long as no session ends before it starts.      *)
GapsReported ==
    (\A x \in Planned : calendar[x].start <= calendar[x].end) =>
        LET gaps == Gaps
        IN \A h \in Hour :
              (\E gap \in gaps : gap.start <= h /\ h < gap.end)
              <=> /\ \E x \in Planned : calendar[x].end <= h
                  /\ \E x \in Planned : h < calendar[x].start
                  /\ ~\E x \in Planned : Covers(x, h)

(* It reports every two sessions that have an hour in common and are not of  *)
(* one block, and reports them once.                                         *)
OverlapsReported ==
    LET listed == Overlaps
    IN \A x, y \in Planned :
          LET together == /\ x # y /\ \E h \in Hour : Covers(x, h) /\ Covers(y, h)
                          /\ ~SameBlock(calendar[x], calendar[y])
          IN /\ (<<x, y>> \in listed \/ <<y, x>> \in listed) <=> together
             /\ ~(<<x, y>> \in listed /\ <<y, x>> \in listed)

ProgramChecked == GapsReported /\ OverlapsReported
===============================================================================
