---------------------------- MODULE ProgramSchedule ----------------------------
(***************************************************************************)
(* When and where the sessions are: single ones, and the columns of a      *)
(* parallel block, which start together but end and are roomed each for    *)
(* itself.  Requests of several chairs overlap: a handler reads, checks    *)
(* that the room is free, and commits, and nothing is locked in between.   *)
(* The ORM writes the rows and in them the columns that differ from what   *)
(* the handler loaded, and fails when a row to be updated is gone.         *)
(*                                                                         *)
(* Slots, types, titles and publication are in other modules.              *)
(***************************************************************************)
EXTENDS Integers, FiniteSets

CONSTANTS
    Session, Group,   \* identifiers
    Room, Day,
    LastMinute,       \* 23:59; the day begins at 0
    Count,            \* how many columns a new block may have
    MaxRequests,      \* requests begun
    MaxAtOnce         \* handlers at work at the same time

NoRoom == "no room"
NoGroup == "no group"
NoSession == "no session"

ASSUME ScheduleAssumption ==
    /\ LastMinute \in Nat \ {0}
    /\ IsFiniteSet(Session) /\ Day # {} /\ NoGroup \notin Group
    /\ Count \subseteq Nat \ {0, 1}
    /\ MaxRequests \in Nat /\ MaxAtOnce \in Nat

Time == 0 .. LastMinute
Duration == 1 .. LastMinute

VARIABLES
    live, placed,        \* the sessions there are, and their columns in the database
    blocks, head,        \* the groups there are, and their day and start
    requests, received,  \* handlers at work; requests begun
    unchecked,           \* sessions placed without a check that held until the commit
    clamped,             \* columns a move has made end at midnight
    crossed,             \* what two handlers did to one block at the same time
    leftover             \* groups that a reset of the data left behind

scheduleVars == <<live, placed, blocks, head, requests, received, unchecked, clamped, crossed,
                  leftover>>
program == <<live, placed, blocks, head>>
marks == <<unchecked, clamped, crossed, leftover>>

\* length is the duration the session was last given by a request of its own.
Row(day, start, end, room, group) ==
    [day |-> day, start |-> start, end |-> end, room |-> room, group |-> group,
     length |-> end - start]
NoRow == Row(CHOOSE d \in Day : TRUE, 0, 0, NoRoom, NoGroup)
BlockHead(day, start) == [day |-> day, start |-> start]
NoHead == BlockHead(CHOOSE d \in Day : TRUE, 0)

Columns(g) == {x \in live : placed[x].group = g}

\* Nothing yet, or a block just created of all the sessions.
ScheduleInit ==
    /\ \/ live = {} /\ blocks = {} /\ placed = [x \in Session |-> NoRow]
       \/ /\ live = Session /\ Cardinality(Session) >= 2
          /\ \E g \in Group :
                /\ blocks = {g}
                /\ placed = [x \in Session |-> Row(NoHead.day, NoHead.start, 1, NoRoom, g)]
    /\ head = [g \in Group |-> NoHead]
    /\ requests = {} /\ received = 0
    /\ unchecked = {} /\ clamped = {} /\ crossed = {} /\ leftover = {}

-------------------------------------------------------------------------------
(* Times. *)

AddMinutes(t, minutes) == IF t + minutes \in Time THEN t + minutes ELSE LastMinute

SharesRoom(r, s) == r.room = s.room /\ r.day = s.day
ClashAtStart(r, s) == SharesRoom(r, s) /\ r.start <= s.start /\ r.end > s.start
Clash(r, s) == SharesRoom(r, s) /\ r.start < s.end /\ r.end > s.start

\* _check_overlap, for session x with the columns r.
Conflict(x, r) == r.room # NoRoom /\ \E y \in live \ {x} : Clash(placed[y], r)

-------------------------------------------------------------------------------
(* A request is received, and its handler loads what it works on.  A block and *)
(* its columns are two queries: another handler may commit between them.       *)

Using == UNION {DOMAIN q.old \cup DOMAIN q.new \cup q.remaining \cup {q.on} : q \in requests}
Free == Session \ (live \cup Using)
FreeGroup == Group \ (blocks \cup {q.group : q \in requests})

\* from and to are the head of the block as loaded and as it shall be.
Receive(op, g, on, old, new, to, at) ==
    /\ received < MaxRequests /\ received' = received + 1
    /\ Cardinality(requests) < MaxAtOnce
    /\ requests' = requests \cup {[n |-> received, op |-> op, group |-> g, on |-> on,
                                   old |-> old, new |-> new, at |-> at, remaining |-> {},
                                   from |-> IF g = NoGroup THEN NoHead ELSE head[g], to |-> to,
                                   overtaken |-> FALSE]}
    /\ UNCHANGED <<program, marks>>

Nothing == [x \in {} |-> NoRow]
Of(S) == [x \in S |-> placed[x]]

CreateSession(day, start, end, room) ==
    /\ end > start /\ Free # {}
    /\ LET x == CHOOSE y \in Free : TRUE
       IN Receive("create", NoGroup, NoSession, Nothing,
                  [y \in {x} |-> Row(day, start, end, room, NoGroup)], NoHead, "loaded")

\* The session once an update is applied: the block owns the day and the start.
AppliedWhole(r, p) ==
    [r EXCEPT !.day = p.day, !.start = p.start, !.end = p.end, !.room = p.room,
              !.length = p.end - p.start]
Applied(r, p) ==
    IF r.group = NoGroup THEN AppliedWhole(r, p)
    ELSE [r EXCEPT !.end = p.end, !.room = p.room, !.length = p.end - r.start]

\* Nothing says that the end is after the start here.
UpdateSession(x, p) ==
    /\ x \in live
    /\ p.room = placed[x].room \/ p.room # NoRoom
    /\ Applied(placed[x], p) # placed[x]
    /\ Receive("edit", placed[x].group, NoSession, Of({x}), [y \in {x} |-> Applied(placed[x], p)],
               NoHead, "loaded")

CreateParallelBlock(count, day, start, minutes) ==
    /\ FreeGroup # {} /\ Cardinality(Free) >= count
    /\ LET end == AddMinutes(start, minutes)
           g == CHOOSE h \in FreeGroup : TRUE
           S == CHOOSE T \in SUBSET Free : Cardinality(T) = count
       IN /\ end > start
          /\ Receive("block", g, NoSession, Nothing,
                     [x \in S |-> Row(day, start, end, NoRoom, g)], BlockHead(day, start), "checked")

UpdateGroup(g, day, start) ==
    /\ g \in blocks
    /\ Receive("move", g, NoSession, Nothing, Nothing, BlockHead(day, start), "received")

\* add_column takes the day and the start from the block it loaded.
AddColumn(g, minutes) ==
    /\ g \in blocks /\ Free # {}
    /\ Receive("add", g, NoSession, Nothing,
               [x \in {CHOOSE y \in Free : TRUE} |->
                    Row(head[g].day, head[g].start, AddMinutes(head[g].start, minutes), NoRoom, g)],
               head[g], "checked")

\* apply_template books rooms without looking.
ApplyTemplate(day, start, end, room) ==
    /\ end > start /\ Free # {}
    /\ Receive("template", NoGroup, NoSession, Nothing,
               [x \in {CHOOSE y \in Free : TRUE} |-> Row(day, start, end, room, NoGroup)],
               NoHead, "checked")

DeleteSession(x) ==
    x \in live /\ Receive("delete", placed[x].group, x, Nothing, Nothing, NoHead, "loaded")

DeleteGroup(g) ==
    g \in blocks /\ Receive("clear", g, NoSession, Nothing, Nothing, NoHead, "received")

-------------------------------------------------------------------------------
(* The handler goes on. *)

Others(q) == requests \ {q}
Dropped(q) == requests' = Others(q) /\ UNCHANGED <<program, received, marks>>

\* A column as the move q takes it, by as many minutes as its block.
MovedStart(c, q) == [c EXCEPT !.day = q.to.day, !.start = q.to.start]
MovedColumn(c, q) ==
    [c EXCEPT !.day = q.to.day, !.start = q.to.start,
              !.end = AddMinutes(@, q.to.start - q.from.start)]

\* The second query of _load_group.
LoadColumns(q) ==
    /\ q.at = "received"
    /\ LET S == Columns(q.group)
           loaded ==
               IF q.op = "clear" THEN [q EXCEPT !.old = Of(S), !.at = "checked"]
               ELSE [q EXCEPT !.old = Of(S), !.new = [x \in S |-> MovedColumn(placed[x], q)],
                              !.at = "loaded"]
       IN requests' = Others(q) \cup {loaded}
    /\ UNCHANGED <<program, received, marks>>

CheckOverlap(q) ==
    /\ q.at = "loaded" /\ q.op # "delete"
    /\ IF \E x \in DOMAIN q.new : Conflict(x, q.new[x])
       THEN Dropped(q)
       ELSE /\ requests' = Others(q) \cup {[q EXCEPT !.at = "checked"]}
            /\ UNCHANGED <<program, received, marks>>

\* The session is deleted, which locks its row, and the other columns are read.
CountRemaining(q) ==
    /\ q.at = "loaded" /\ q.op = "delete"
    /\ ~\E k \in requests : k.at = "counted" /\ k.on = q.on
    /\ requests' = Others(q) \cup
          {[q EXCEPT !.at = "counted",
                     !.remaining = IF q.group = NoGroup THEN {} ELSE Columns(q.group) \ {q.on}]}
    /\ UNCHANGED <<program, received, marks>>

\* _dissolve_group_if_orphaned.
DissolvesEmpty(q) == q.group # NoGroup /\ q.remaining = {}
Dissolves(q) == q.group # NoGroup /\ Cardinality(q.remaining) <= 1
Unlinked(q) == IF Dissolves(q) THEN q.remaining ELSE {}

\* The rows a commit inserts, those it writes, and those another handler has deleted and
\* not committed.
Inserts(q) == DOMAIN q.new \ DOMAIN q.old
Writes(q) ==
    {x \in DOMAIN q.old : x \in DOMAIN q.new => q.new[x] # q.old[x]} \cup Unlinked(q)
Touched(q) == Inserts(q) \cup Writes(q)
Locked(q) == {k.on : k \in {k \in Others(q) : k.at = "counted"}}
Ready(q) == q.at \in {"checked", "counted"} /\ Writes(q) \cap Locked(q) = {}

\* An update finds no row, or a new column no group.
Stale(q) ==
    \/ q.op # "clear" /\ ~Writes(q) \subseteq live
    \/ q.op \in {"add", "move"} /\ q.group \notin blocks
Deadlocked(q) ==
    q.at = "counted" /\ \E k \in Others(q) :
        k.at = "counted" /\ k.on \in Unlinked(q) /\ q.on \in Unlinked(k)

RollBack(q) == ((Ready(q) /\ Stale(q)) \/ Deadlocked(q)) /\ Dropped(q)

\* Two handlers at work on the same sessions, or in the same room after the check.
Meets(q, k) ==
    \/ Touched(q) \cap DOMAIN k.old # {}
    \/ k.at = "checked" /\ \E x \in Touched(q), y \in DOMAIN k.new :
          q.new[x].room # NoRoom /\ SharesRoom(q.new[x], k.new[y])
Overtaken(q) == {[k EXCEPT !.overtaken = @ \/ Meets(q, k)] : k \in Others(q)}

\* A move that has loaded its block and not its columns.
Doing(k) == IF k.op = "move" /\ k.at = "received" THEN "load" ELSE k.op

Crossing(q) ==
    {<<q.group, {q.op, Doing(k)}>> : k \in {k \in Others(q) :
        /\ q.group # NoGroup /\ k.group = q.group
        /\ k.op = "delete" => k.at = "counted"}}

\* The fields that differ from what was loaded are written.
Written(now, old, new) == [f \in DOMAIN now |-> IF new[f] # old[f] THEN new[f] ELSE now[f]]

Length(r) == r.end - r.start

\* The columns a move takes past midnight, and those whose end, before the start, it takes
\* below zero: both end at 23:59.  Those, and the columns that did not start with their
\* block, may hold the room for longer than they did.
Shifted(q, x) == q.old[x].end + (q.to.start - q.from.start)
ColumnsMoved(q) == IF q.op = "move" THEN Writes(q) ELSE {}
Cut(q) == {x \in ColumnsMoved(q) : Shifted(q, x) \notin Time}
Aligned(q, x) == q.old[x].day = q.from.day /\ q.old[x].start = q.from.start
Stretched(q) == {x \in ColumnsMoved(q) : Shifted(q, x) < 0 \/ ~Aligned(q, x)}

CommitPlacement(q) ==
    /\ q.op \notin {"delete", "clear"} /\ Ready(q) /\ ~Stale(q)
    /\ live' = live \cup Touched(q)
    /\ placed' = [x \in Session |->
                  IF x \in Inserts(q) THEN q.new[x]
                  ELSE IF x \in Writes(q) THEN Written(placed[x], q.old[x], q.new[x])
                  ELSE placed[x]]
    /\ IF q.op \in {"block", "move"}
       THEN /\ blocks' = blocks \cup {q.group}
            /\ head' = [head EXCEPT ![q.group] = Written(@, q.from, q.to)]
       ELSE UNCHANGED <<blocks, head>>
    /\ requests' = Overtaken(q)
    /\ unchecked' = IF q.overtaken \/ q.op = "template" THEN unchecked \cup Touched(q)
                    ELSE IF q.op = "edit" THEN unchecked \ Touched(q)
                    ELSE unchecked \cup Stretched(q)
    /\ clamped' = IF q.op = "edit" THEN clamped \ Touched(q) ELSE clamped \cup Cut(q)
    /\ crossed' = crossed \cup Crossing(q)
    /\ UNCHANGED <<received, leftover>>

\* Sessions and groups go; the foreign key unlinks the columns that stay.
Remove(gone, groups) ==
    /\ live' = live \ gone /\ blocks' = blocks \ groups
    /\ placed' = [x \in Session |->
                  IF x \in gone THEN NoRow
                  ELSE IF placed[x].group \in groups THEN [placed[x] EXCEPT !.group = NoGroup]
                  ELSE placed[x]]
    /\ head' = [g \in Group |-> IF g \in groups THEN NoHead ELSE head[g]]
    /\ unchecked' = unchecked \ gone /\ clamped' = clamped \ gone
    /\ UNCHANGED received

CommitDeletion(q) ==
    /\ q.op \in {"delete", "clear"} /\ Ready(q) /\ ~Stale(q)
    /\ LET groups == IF q.op = "clear" \/ Dissolves(q) THEN {q.group} ELSE {}
       IN /\ Remove(IF q.op = "clear" THEN DOMAIN q.old ELSE {q.on}, groups)
          /\ crossed' = {c \in crossed \cup Crossing(q) : c[1] \notin groups}
          /\ leftover' = leftover \ groups
    /\ requests' = Others(q)

\* reset_all_data deletes the sessions and not the groups.
ResetAllData ==
    /\ received < MaxRequests /\ live # {} /\ requests = {}
    /\ Remove(live, {})
    /\ leftover' = leftover \cup blocks
    /\ UNCHANGED <<requests, crossed>>

\* Asked before the inputs are enumerated, and by Receive.
BoundsLeft == received < MaxRequests /\ Cardinality(requests) < MaxAtOnce

ScheduleNext ==
    \/ /\ BoundsLeft
       /\ \E day \in Day, start \in Time :
             \/ \E end \in Time, room \in Room \cup {NoRoom} :
                   \/ CreateSession(day, start, end, room) \/ ApplyTemplate(day, start, end, room)
                   \/ \E x \in live :
                         UpdateSession(x, [day |-> day, start |-> start, end |-> end, room |-> room])
             \/ \E g \in blocks : UpdateGroup(g, day, start)
             \/ \E count \in Count, minutes \in Duration :
                   CreateParallelBlock(count, day, start, minutes)
    \/ \E g \in blocks : DeleteGroup(g) \/ \E minutes \in Duration : AddColumn(g, minutes)
    \/ \E x \in live : DeleteSession(x)
    \/ \E q \in requests :
          \/ LoadColumns(q) \/ CheckOverlap(q) \/ CountRemaining(q)
          \/ CommitPlacement(q) \/ CommitDeletion(q) \/ RollBack(q)
    \/ ResetAllData

ScheduleSpec == ScheduleInit /\ [][ScheduleNext]_scheduleVars

-------------------------------------------------------------------------------
(* Two sessions are in one room at one time only if one of them came from a   *)
(* template, or was placed while another request placed a session in that     *)
(* room after both had looked, or changed the same session; or was moved with *)
(* its block without having started with it as the handler loaded the two, or *)
(* with an end before its start; and was not placed anew since.  Moving a     *)
(* block is no excuse by itself, although each column is looked at against    *)
(* where the others have been.                                                *)
Held(r) == r.start .. r.end - 1

NoDoubleBooking ==
    \A x, y \in live \ unchecked :
        \/ x = y \/ placed[x].room = NoRoom \/ ~SharesRoom(placed[x], placed[y])
        \/ Held(placed[x]) \cap Held(placed[y]) = {}

(* A block has two columns or more, unless two of them were deleted at the    *)
(* same time, or the data were reset.                                         *)
BlocksHaveColumns ==
    \A g \in blocks \ leftover :
        <<g, {"delete"}>> \in crossed \/ Cardinality(Columns(g)) >= 2

(* Its columns start when it starts, unless it was moved while a column was   *)
(* added, or between the two queries of another move; and each lasts as long  *)
(* as it was last told to, wherever the block was moved to and back, unless   *)
(* midnight cut it, or it was added or edited while the block was moved, or   *)
(* two edits or moves met.                                                    *)
Torn(g) == <<g, {"load", "move"}>> \in crossed

ColumnsStartTogether ==
    \A g \in blocks : Torn(g) \/ <<g, {"add", "move"}>> \in crossed \/
        \A x \in Columns(g) : BlockHead(placed[x].day, placed[x].start) = head[g]

LengthsKept ==
    \A g \in blocks :
        \/ Torn(g) \/ \E ops \in {{"move"}, {"edit"}, {"edit", "move"}, {"add", "move"}} :
               <<g, ops>> \in crossed
        \/ \A x \in Columns(g) \ clamped : Length(placed[x]) = placed[x].length

BlocksHold == BlocksHaveColumns /\ ColumnsStartTogether /\ LengthsKept
===============================================================================
