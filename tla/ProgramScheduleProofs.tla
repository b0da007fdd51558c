------------------------ MODULE ProgramScheduleProofs -------------------------
(***************************************************************************)
(* Proofs about ProgramSchedule, for every set of sessions, rooms and days *)
(* and every number of requests, at once or one after the other; and about *)
(* ProgramCheck, for every set of sessions of a day.                       *)
(***************************************************************************)
EXTENDS MCProgram, FiniteSetTheorems, FunctionTheorems, SequenceTheorems, WellFoundedInduction,
        TLAPS

\* When and where a session is, without what block it belongs to.
SamePlace(r, s) == r.day = s.day /\ r.start = s.start /\ r.end = s.end /\ r.room = s.room

PlaceShape == [day : Day, start : Time, end : Time, room : Room \cup {NoRoom},
             group : Group \cup {NoGroup}, length : Int]
HeadShape == [day : Day, start : Time]

\* The columns of the database.
PlacesTyped ==
    /\ live \subseteq Session
    /\ placed \in [Session -> PlaceShape]
    /\ blocks \subseteq Group
    /\ head \in [Group -> HeadShape]

Placing == {"create", "edit", "block", "move", "add", "template"}

\* What a handler works with, by the kind of request.
RequestFields == {"n", "op", "group", "on", "old", "new", "at", "remaining", "from", "to", "overtaken"}

RequestTyped(q) ==
    /\ DOMAIN q = RequestFields
    /\ q.overtaken \in BOOLEAN
    /\ q.op \in Placing \cup {"delete", "clear"}
    /\ q.from \in HeadShape /\ q.to \in HeadShape
    /\ DOMAIN q.old \subseteq Session /\ DOMAIN q.new \subseteq Session
    /\ \A x \in DOMAIN q.old : q.old[x] \in PlaceShape
    /\ \A x \in DOMAIN q.new : q.new[x] \in PlaceShape
    /\ q.op \in {"block", "move"} => q.group \in Group
    /\ q.op # "clear" => DOMAIN q.old \subseteq DOMAIN q.new
    /\ q.op \in {"delete", "clear"} => DOMAIN q.new = {}
    /\ q.at = "counted" => q.op = "delete"
    /\ q.at = "received" =>
          q.op \in {"move", "clear"} /\ q.group \in Group /\ DOMAIN q.old = {}
    /\ q.op # "delete" => q.remaining = {}
    /\ q.op \in {"create", "edit"} => \A x, y \in DOMAIN q.new : x = y
    /\ q.op \in {"block", "add"} => \A x \in DOMAIN q.new : q.new[x].room = NoRoom

\* How update_group has computed the rows it writes.
MoveComputed(q) ==
    q.op = "move" =>
        /\ DOMAIN q.new = DOMAIN q.old
        /\ \A x \in DOMAIN q.new :
              /\ q.new[x].room = q.old[x].room
              /\ q.new[x].day = q.to.day /\ q.new[x].start = q.to.start
              /\ q.new[x].end = AddMinutes(q.old[x].end, q.to.start - q.from.start)

\* Unless another handler met it, a handler knows where its sessions are.
LoadedIsCurrent(q) ==
    ~q.overtaken => \A x \in DOMAIN q.old \cap live : SamePlace(placed[x], q.old[x])

\* ... and once it has looked, the room is free where it is about to place them.
LookedIsFree(q) ==
    (q.at = "checked" /\ q.op \in {"create", "edit", "move"} /\ ~q.overtaken) =>
        \A x \in DOMAIN q.new : \A y \in live \ (unchecked \cup {x}) :
            q.new[x].room # NoRoom => ~Clash(placed[y], q.new[x])

RequestsHold ==
    \A q \in requests :
        RequestTyped(q) /\ MoveComputed(q) /\ LoadedIsCurrent(q) /\ LookedIsFree(q)

ScheduleInv == PlacesTyped /\ RequestsHold /\ NoDoubleBooking

-------------------------------------------------------------------------------
(* Times. *)

LEMMA TimeIsInt == Time \subseteq Int
  BY ScheduleAssumption DEF Time, ScheduleAssumption

LEMMA AddMinutesInDay ==
    ASSUME NEW t \in Time, NEW minutes \in Int PROVE AddMinutes(t, minutes) \in Time
  BY ScheduleAssumption DEF AddMinutes, Time, ScheduleAssumption

\* Two sessions in one room that do not clash hold it at different times.
LEMMA NoClashIsDisjoint ==
    ASSUME NEW r \in PlaceShape, NEW s \in PlaceShape, SharesRoom(r, s), ~Clash(r, s)
    PROVE  Held(r) \cap Held(s) = {}
  <1>1. r.start \in Int /\ r.end \in Int /\ s.start \in Int /\ s.end \in Int
    BY TimeIsInt DEF PlaceShape
  <1>2. r.start >= s.end \/ r.end <= s.start
    BY <1>1 DEF Clash
  <1>3. QED
    BY <1>1, <1>2 DEF Held

LEMMA HeldByPlace ==
    ASSUME NEW r, NEW s, SamePlace(r, s)
    PROVE  /\ Held(r) = Held(s)
           /\ \A c : SharesRoom(r, c) <=> SharesRoom(s, c)
           /\ \A c : SharesRoom(c, r) <=> SharesRoom(c, s)
           /\ \A c : Clash(r, c) <=> Clash(s, c)
  BY DEF SamePlace, Held, SharesRoom, Clash

\* Two columns that started with their block and hold a room once it is moved
\* held it before, from the same minute on.
LEMMA MovedHeldBefore ==
    ASSUME NEW q, RequestTyped(q), MoveComputed(q), q.op = "move",
           NEW x \in Writes(q) \cap DOMAIN q.old, x \notin Stretched(q), Held(q.new[x]) # {}
    PROVE  q.from.start \in Held(q.old[x]) /\ q.old[x].day = q.from.day
  <1> DEFINE delta == q.to.start - q.from.start
  <1>1. /\ q.old[x].end \in Int /\ q.from.start \in Int /\ q.to.start \in Int
        /\ q.to.start <= LastMinute /\ LastMinute \in Int
    BY ScheduleAssumption DEF RequestTyped, PlaceShape, HeadShape, Time, ScheduleAssumption
  <1>2. Aligned(q, x) /\ ~(q.old[x].end + delta < 0)
    BY DEF Stretched, ColumnsMoved, Shifted
  <1>3. q.new[x].start = q.to.start /\ q.new[x].end = AddMinutes(q.old[x].end, delta)
    BY DEF MoveComputed
  <1>4. q.new[x].end > q.to.start
    <2>1. q.new[x].end \in Int
      BY TimeIsInt DEF RequestTyped, PlaceShape, MoveComputed
    <2>2. QED
      BY <1>1, <1>3, <2>1 DEF Held
  <1>5. q.old[x].end + delta > q.to.start
    BY <1>1, <1>2, <1>3, <1>4 DEF AddMinutes, Time
  <1>6. q.old[x].end > q.from.start
    BY <1>1, <1>5
  <1>7. QED
    BY <1>1, <1>2, <1>6 DEF Aligned, Held

-------------------------------------------------------------------------------
(* Requests. *)

LEMMA HeadsTyped ==
    /\ NoHead \in HeadShape
    /\ \A day \in Day, start \in Time : BlockHead(day, start) \in HeadShape
    /\ \A day \in Day, start \in Time : BlockHead(day, start).start = start /\ BlockHead(day, start).day = day
  <1>1. 0 \in Time /\ (CHOOSE d \in Day : TRUE) \in Day
    BY ScheduleAssumption DEF Time, ScheduleAssumption
  <1>2. QED
    BY <1>1 DEF NoHead, BlockHead, HeadShape

\* A column of a new block has no room.
LEMMA ColumnTyped ==
    ASSUME NEW day \in Day, NEW start \in Time, NEW end \in Time, NEW g \in Group
    PROVE  Row(day, start, end, NoRoom, g) \in PlaceShape /\ Row(day, start, end, NoRoom, g).room = NoRoom
  <1>1. end - start \in Int
    BY TimeIsInt
  <1>2. QED
    BY <1>1 DEF Row, PlaceShape

LEMMA RowsTyped ==
    /\ NoRow \in PlaceShape
    /\ \A day \in Day, start, end \in Time, room \in Room \cup {NoRoom}, g \in Group \cup {NoGroup} :
          /\ Row(day, start, end, room, g) \in PlaceShape
          /\ Row(day, start, end, room, g).room = room
  <1>1. 0 \in Time /\ (CHOOSE d \in Day : TRUE) \in Day
    BY ScheduleAssumption DEF Time, ScheduleAssumption
  <1>2. ASSUME NEW day \in Day, NEW start \in Time, NEW end \in Time,
               NEW room \in Room \cup {NoRoom}, NEW g \in Group \cup {NoGroup}
        PROVE  /\ Row(day, start, end, room, g) \in PlaceShape
               /\ Row(day, start, end, room, g).room = room
    <2>1. end - start \in Int
      BY TimeIsInt
    <2>2. QED
      BY <2>1 DEF Row, PlaceShape
  <1>3. NoRow \in PlaceShape
    BY <1>1, <1>2 DEF NoRow
  <1>4. QED
    BY <1>2, <1>3

\* A request that knows the same and asks for the same, at another point of its handler.
LEMMA SameRequest ==
    ASSUME NEW q, NEW d, RequestTyped(q), MoveComputed(q),
           DOMAIN d = RequestFields, d.overtaken \in BOOLEAN, d.at = "counted" => q.op = "delete",
           d.op = q.op, d.group = q.group, d.from = q.from, d.to = q.to, d.old = q.old, d.new = q.new,
           d.at = "received" => q.at = "received",
           d.remaining = q.remaining \/ q.op = "delete"
    PROVE  /\ RequestTyped(d) /\ MoveComputed(d)
           /\ (d.overtaken = q.overtaken /\ LoadedIsCurrent(q)) => LoadedIsCurrent(d)
  BY DEF RequestTyped, MoveComputed, LoadedIsCurrent

\* A request that is received knows what there is, and has not looked.
LEMMA Received ==
    ASSUME PlacesTyped, RequestsHold,
           NEW op \in Placing \cup {"delete", "clear"}, NEW g \in Group \cup {NoGroup}, NEW on,
           NEW old, NEW new, NEW to \in HeadShape, NEW at \in {"received", "loaded", "checked"},
           at = "received" =>
               op \in {"move", "clear"} /\ g \in Group /\ DOMAIN old = {} /\ DOMAIN new = {},
           at = "checked" => op \in {"block", "add", "template"},
           DOMAIN old \subseteq live, \A x \in DOMAIN old : old[x] = placed[x],
           DOMAIN new \subseteq Session, \A x \in DOMAIN new : new[x] \in PlaceShape,
           op # "clear" => DOMAIN old \subseteq DOMAIN new,
           op \in {"block", "move"} => g \in Group,
           op \in {"delete", "clear"} => DOMAIN new = {},
           op \in {"create", "edit"} => \A x, y \in DOMAIN new : x = y,
           op \in {"block", "add"} => \A x \in DOMAIN new : new[x].room = NoRoom,
           op = "move" => DOMAIN new = {} /\ DOMAIN old = {},
           Receive(op, g, on, old, new, to, at)
    PROVE  RequestsHold'
  <1> DEFINE rec == [n |-> received, op |-> op, group |-> g, on |-> on,
                     old |-> old, new |-> new, at |-> at, remaining |-> {},
                     from |-> IF g = NoGroup THEN NoHead ELSE head[g], to |-> to,
                     overtaken |-> FALSE]
  <1>1. requests' = requests \cup {rec} /\ UNCHANGED <<live, placed, unchecked>>
    BY DEF Receive, program, marks
  <1>2. rec.from \in HeadShape
    BY HeadsTyped DEF PlacesTyped
  <1>3. \A x \in DOMAIN old : x \in Session /\ old[x] \in PlaceShape
    BY DEF PlacesTyped
  <1>4. RequestTyped(rec)
    BY <1>2, <1>3 DEF RequestTyped, RequestFields
  <1>5. MoveComputed(rec)
    BY DEF MoveComputed
  <1>6. LoadedIsCurrent(rec)
    BY DEF LoadedIsCurrent, SamePlace
  <1>7. LookedIsFree(rec)
    BY DEF LookedIsFree
  <1> HIDE DEF rec
  <1>8. ASSUME NEW q \in requests'
        PROVE  RequestTyped(q) /\ MoveComputed(q) /\ LoadedIsCurrent(q) /\ LookedIsFree(q)
    BY <1>1, <1>4, <1>5, <1>6, <1>7, <1>8 DEF RequestsHold
  <1>9. ASSUME NEW q \in requests' PROVE LoadedIsCurrent(q)' /\ LookedIsFree(q)'
    BY <1>1, <1>8, <1>9 DEF LoadedIsCurrent, LookedIsFree
  <1>10. ASSUME NEW q \in requests' PROVE RequestTyped(q)' /\ MoveComputed(q)'
    BY <1>8, <1>10 DEF RequestTyped, MoveComputed
  <1>11. QED
    BY <1>9, <1>10 DEF RequestsHold

\* What has at least count elements has a part of that size.
LEMMA PartOfSize ==
    ASSUME NEW S, IsFiniteSet(S), NEW count \in Nat, Cardinality(S) >= count
    PROVE  \E T \in SUBSET S : Cardinality(T) = count
  <1> DEFINE size == Cardinality(S)
  <1>1. size \in Nat /\ ExistsBijection(1 .. size, S)
    BY FS_CardinalityType
  <1>2. PICK f \in Bijection(1 .. size, S) : TRUE
    BY <1>1 DEF ExistsBijection
  <1>3. 1 .. count \subseteq 1 .. size
    BY <1>1
  <1> DEFINE g == Restrict(f, 1 .. count)
  <1>4. g \in Bijection(1 .. count, Range(g))
    BY <1>2, <1>3, Fun_BijRestrict
  <1>5. Cardinality(Range(g)) = count
    BY <1>4, FS_CountingElements DEF ExistsBijection
  <1>6. f \in [1 .. size -> S]
    BY <1>2 DEF Bijection, Injection
  <1>7. Range(g) \subseteq S
    BY <1>3, <1>6 DEF Range, Restrict
  <1>8. QED
    BY <1>5, <1>7

LEMMA FreeTyped == Free \subseteq Session /\ FreeGroup \subseteq Group
  BY DEF Free, FreeGroup

\* Receiving a request changes nothing but the requests.
LEMMA ReceiptKeeps ==
    ASSUME ScheduleInv, RequestsHold',
           NEW op, NEW g, NEW on, NEW old, NEW new, NEW to, NEW at,
           Receive(op, g, on, old, new, to, at)
    PROVE  ScheduleInv'
  BY DEF ScheduleInv, Receive, program, marks, PlacesTyped, NoDoubleBooking

LEMMA CreateSessionKeeps ==
    ASSUME ScheduleInv, NEW day \in Day, NEW start \in Time, NEW end \in Time,
           NEW room \in Room \cup {NoRoom},
           CreateSession(day, start, end, room) \/ ApplyTemplate(day, start, end, room)
    PROVE  ScheduleInv'
  <1> DEFINE x == CHOOSE y \in Free : TRUE
             new == [y \in {x} |-> Row(day, start, end, room, NoGroup)]
  <1>1. x \in Session
    BY FreeTyped DEF CreateSession, ApplyTemplate
  <1>2. DOMAIN new \subseteq Session /\ \A y \in DOMAIN new : new[y] \in PlaceShape
    BY <1>1, RowsTyped
  <1>3. DOMAIN Nothing = {} /\ \A y, z \in DOMAIN new : y = z
    BY DEF Nothing
  <1>4. PlacesTyped /\ RequestsHold /\ NoHead \in HeadShape
    BY HeadsTyped DEF ScheduleInv
  <1>5. \/ Receive("create", NoGroup, NoSession, Nothing, new, NoHead, "loaded")
        \/ Receive("template", NoGroup, NoSession, Nothing, new, NoHead, "checked")
    BY DEF CreateSession, ApplyTemplate
  <1> HIDE DEF new
  <1>6. CASE Receive("create", NoGroup, NoSession, Nothing, new, NoHead, "loaded")
    <2>1. RequestsHold'
      BY <1>2, <1>3, <1>4, <1>6, Received DEF Placing
    <2>2. QED
      BY <1>6, <2>1, ReceiptKeeps
  <1>7. CASE Receive("template", NoGroup, NoSession, Nothing, new, NoHead, "checked")
    <2>1. RequestsHold'
      BY <1>2, <1>3, <1>4, <1>7, Received DEF Placing
    <2>2. QED
      BY <1>7, <2>1, ReceiptKeeps
  <1>8. QED
    BY <1>5, <1>6, <1>7

LEMMA UpdateSessionKeeps ==
    ASSUME ScheduleInv, NEW x \in live, NEW day \in Day, NEW start \in Time, NEW end \in Time,
           NEW room \in Room \cup {NoRoom},
           UpdateSession(x, [day |-> day, start |-> start, end |-> end, room |-> room])
    PROVE  ScheduleInv'
  <1> DEFINE p == [day |-> day, start |-> start, end |-> end, room |-> room]
             old == Of({x})
             new == [y \in {x} |-> Applied(placed[x], p)]
  <1>1. PlacesTyped /\ RequestsHold /\ x \in Session /\ placed[x] \in PlaceShape
    BY DEF ScheduleInv, PlacesTyped
  <1>2. Applied(placed[x], p) \in PlaceShape
    <2>1. end - start \in Int /\ end - placed[x].start \in Int
      BY <1>1, TimeIsInt DEF PlaceShape
    <2>2. QED
      BY <1>1, <2>1 DEF Applied, AppliedWhole, PlaceShape
  <1>3. DOMAIN new = {x} /\ \A y \in DOMAIN new : new[y] \in PlaceShape
    BY <1>2
  <1>4. DOMAIN old = {x} /\ \A y \in DOMAIN old : old[y] = placed[y]
    BY DEF Of
  <1>5. placed[x].group \in Group \cup {NoGroup} /\ NoHead \in HeadShape
    BY <1>1, HeadsTyped DEF PlaceShape
  <1>6. Receive("edit", placed[x].group, NoSession, old, new, NoHead, "loaded")
    BY DEF UpdateSession
  <1> HIDE DEF old, new
  <1>7. RequestsHold'
    BY <1>1, <1>3, <1>4, <1>5, <1>6, Received DEF Placing
  <1>8. QED
    BY <1>6, <1>7, ReceiptKeeps

LEMMA CreateBlockKeeps ==
    ASSUME ScheduleInv, NEW count \in Count, NEW day \in Day, NEW start \in Time,
           NEW minutes \in Duration, CreateParallelBlock(count, day, start, minutes)
    PROVE  ScheduleInv'
  <1> DEFINE end == AddMinutes(start, minutes)
             g == CHOOSE h \in FreeGroup : TRUE
             S == CHOOSE T \in SUBSET Free : Cardinality(T) = count
             new == [x \in S |-> Row(day, start, end, NoRoom, g)]
             to == BlockHead(day, start)
  <1>1. S \subseteq Session
    <2>1. IsFiniteSet(Free) /\ count \in Nat
      BY ScheduleAssumption, FreeTyped, FS_Subset DEF ScheduleAssumption
    <2>2. \E T \in SUBSET Free : Cardinality(T) = count
      BY <2>1, PartOfSize DEF CreateParallelBlock
    <2>3. S \in SUBSET Free
      BY <2>2
    <2>4. QED
      BY <2>3, FreeTyped
  <1>2. g \in Group
    BY FreeTyped DEF CreateParallelBlock
  <1>3. end \in Time
    BY AddMinutesInDay DEF Duration
  <1>4. /\ DOMAIN new \subseteq Session
        /\ \A x \in DOMAIN new : new[x] \in PlaceShape /\ new[x].room = NoRoom
    <2>1. LET r == Row(day, start, end, NoRoom, g) IN r \in PlaceShape /\ r.room = NoRoom
      BY <1>2, <1>3, ColumnTyped
    <2>2. DOMAIN new = S /\ \A x \in S : new[x] = Row(day, start, end, NoRoom, g)
      OBVIOUS
    <2>3. QED
      BY <1>1, <2>1, <2>2
  <1>5. PlacesTyped /\ RequestsHold /\ to \in HeadShape /\ DOMAIN Nothing = {}
    BY HeadsTyped DEF ScheduleInv, Nothing
  <1>6. Receive("block", g, NoSession, Nothing, new, to, "checked")
    BY DEF CreateParallelBlock
  <1> HIDE DEF end, g, S, new, to
  <1>7. RequestsHold'
    BY <1>2, <1>4, <1>5, <1>6, Received DEF Placing
  <1>8. QED
    BY <1>6, <1>7, ReceiptKeeps

LEMMA UpdateGroupKeeps ==
    ASSUME ScheduleInv, NEW g \in blocks, NEW day \in Day, NEW start \in Time,
           UpdateGroup(g, day, start)
    PROVE  ScheduleInv'
  <1> DEFINE to == BlockHead(day, start)
             none == Nothing
             at == "received"
             op == "move"
  <1>1. PlacesTyped /\ RequestsHold /\ g \in Group
    BY DEF ScheduleInv, PlacesTyped
  <1>2. to \in HeadShape /\ DOMAIN none = {}
    BY HeadsTyped DEF Nothing
  <1>3. Receive(op, g, NoSession, none, none, to, at)
    BY DEF UpdateGroup
  <1>4. op \in Placing /\ op = "move" /\ at = "received"
    BY DEF Placing
  <1> HIDE DEF to, none, at, op
  <1>5. RequestsHold'
    BY <1>1, <1>2, <1>3, <1>4, Received
  <1>6. QED
    BY <1>3, <1>5, ReceiptKeeps

LEMMA AddColumnKeeps ==
    ASSUME ScheduleInv, NEW g \in blocks, NEW minutes \in Duration, AddColumn(g, minutes)
    PROVE  ScheduleInv'
  <1> DEFINE row == Row(head[g].day, head[g].start, AddMinutes(head[g].start, minutes), NoRoom, g)
             new == [x \in {CHOOSE y \in Free : TRUE} |-> row]
  <1>1. PlacesTyped /\ RequestsHold /\ g \in Group /\ head[g] \in HeadShape
    BY DEF ScheduleInv, PlacesTyped
  <1>2. AddMinutes(head[g].start, minutes) \in Time
    BY <1>1, AddMinutesInDay DEF HeadShape, Duration
  <1>3. row \in PlaceShape /\ row.room = NoRoom
    <2>1. head[g].day \in Day /\ head[g].start \in Time
      BY <1>1 DEF HeadShape
    <2>2. QED
      BY <1>1, <1>2, <2>1, ColumnTyped
  <1>4. DOMAIN new \subseteq Session /\ DOMAIN Nothing = {}
    BY FreeTyped DEF AddColumn, Nothing
  <1>5. \A x \in DOMAIN new : new[x] = row
    OBVIOUS
  <1>6. Receive("add", g, NoSession, Nothing, new, head[g], "checked")
    BY DEF AddColumn
  <1> HIDE DEF row, new
  <1>7. RequestsHold'
    BY <1>1, <1>3, <1>4, <1>5, <1>6, Received DEF Placing
  <1>8. QED
    BY <1>6, <1>7, ReceiptKeeps

LEMMA DeletionsKeep ==
    ASSUME ScheduleInv,
           \/ \E x \in live : DeleteSession(x)
           \/ \E g \in blocks : DeleteGroup(g)
    PROVE  ScheduleInv'
  <1>1. PlacesTyped /\ RequestsHold /\ NoHead \in HeadShape /\ DOMAIN Nothing = {}
    BY HeadsTyped DEF ScheduleInv, Nothing
  <1>2. ASSUME NEW x \in live, DeleteSession(x) PROVE ScheduleInv'
    <2>1. placed[x].group \in Group \cup {NoGroup}
      BY <1>1 DEF PlacesTyped, PlaceShape
    <2>2. Receive("delete", placed[x].group, x, Nothing, Nothing, NoHead, "loaded")
      BY <1>2 DEF DeleteSession
    <2>3. RequestsHold'
      BY <1>1, <2>1, <2>2, Received DEF Placing
    <2>4. QED
      BY <2>2, <2>3, ReceiptKeeps
  <1>3. ASSUME NEW g \in blocks, DeleteGroup(g) PROVE ScheduleInv'
    <2>1. g \in Group
      BY <1>1 DEF PlacesTyped
    <2>2. Receive("clear", g, NoSession, Nothing, Nothing, NoHead, "received")
      BY <1>3 DEF DeleteGroup
    <2>3. RequestsHold'
      BY <1>1, <2>1, <2>2, Received DEF Placing
    <2>4. QED
      BY <2>2, <2>3, ReceiptKeeps
  <1>4. QED
    BY <1>2, <1>3

-------------------------------------------------------------------------------
(* The handlers go on. *)

\* One handler is further, or done; the program is as it was.
LEMMA Proceeds ==
    ASSUME ScheduleInv, NEW q \in requests, NEW S,
           requests' = Others(q) \cup S, UNCHANGED <<program, received, marks>>,
           \A d \in S : RequestTyped(d) /\ MoveComputed(d) /\ LoadedIsCurrent(d) /\ LookedIsFree(d)
    PROVE  ScheduleInv'
  <1>1. UNCHANGED <<live, placed, blocks, head, unchecked>>
    BY DEF program, marks
  <1>2. \A e \in requests' :
           RequestTyped(e) /\ MoveComputed(e) /\ LoadedIsCurrent(e) /\ LookedIsFree(e)
    BY DEF ScheduleInv, RequestsHold, Others
  <1>3. ASSUME NEW e \in requests' PROVE LoadedIsCurrent(e)' /\ LookedIsFree(e)'
    BY <1>1, <1>2, <1>3 DEF LoadedIsCurrent, LookedIsFree
  <1>4. ASSUME NEW e \in requests' PROVE RequestTyped(e)' /\ MoveComputed(e)'
    BY <1>2, <1>4 DEF RequestTyped, MoveComputed
  <1>5. RequestsHold'
    BY <1>3, <1>4 DEF RequestsHold
  <1>6. PlacesTyped' /\ NoDoubleBooking'
    BY <1>1 DEF ScheduleInv, PlacesTyped, NoDoubleBooking
  <1>7. QED
    BY <1>5, <1>6 DEF ScheduleInv

LEMMA DroppedKeeps ==
    ASSUME ScheduleInv, NEW q \in requests, Dropped(q) PROVE ScheduleInv'
  <1> DEFINE S == {}
  <1>1. requests' = Others(q) \cup S /\ UNCHANGED <<program, received, marks>>
    BY DEF Dropped
  <1>2. \A d \in S : RequestTyped(d) /\ MoveComputed(d) /\ LoadedIsCurrent(d) /\ LookedIsFree(d)
    OBVIOUS
  <1> HIDE DEF S
  <1>3. QED
    BY <1>1, <1>2, Proceeds

\* The columns are known as they are at that moment, and moved as far as the block.
LEMMA LoadColumnsKeeps ==
    ASSUME ScheduleInv, NEW q \in requests, LoadColumns(q) PROVE ScheduleInv'
  <1> DEFINE T == Columns(q.group)
             old == Of(T)
             new == [x \in T |-> MovedColumn(placed[x], q)]
             d == IF q.op = "clear" THEN [q EXCEPT !.old = old, !.at = "checked"]
                  ELSE [q EXCEPT !.old = old, !.new = new, !.at = "loaded"]
  <1>0. q.at = "received"
    BY ZenonT(30) DEF LoadColumns
  <1>1. /\ PlacesTyped /\ RequestTyped(q) /\ MoveComputed(q)
        /\ q.op \in {"move", "clear"} /\ q.at = "received"
    BY <1>0 DEF ScheduleInv, RequestsHold, RequestTyped
  <1>2. requests' = Others(q) \cup {d} /\ UNCHANGED <<program, received, marks>>
    BY ZenonT(30) DEF LoadColumns
  <1>3. T \subseteq live /\ T \subseteq Session /\ \A x \in T : placed[x] \in PlaceShape
    BY <1>1 DEF Columns, PlacesTyped
  <1>4. DOMAIN old = T /\ \A x \in T : old[x] = placed[x]
    BY DEF Of
  <1> DEFINE delta == q.to.start - q.from.start
  <1>5. ASSUME NEW x \in T
        PROVE  /\ MovedColumn(placed[x], q) \in PlaceShape
               /\ MovedColumn(placed[x], q).room = placed[x].room
               /\ MovedColumn(placed[x], q).day = q.to.day
               /\ MovedColumn(placed[x], q).start = q.to.start
               /\ MovedColumn(placed[x], q).end = AddMinutes(placed[x].end, delta)
    <2>1. q.to.day \in Day /\ q.to.start \in Time /\ delta \in Int
      <3>1. q.to \in HeadShape /\ q.from \in HeadShape
        BY <1>1 DEF RequestTyped
      <3>2. q.to.day \in Day /\ q.to.start \in Time /\ q.from.start \in Time
        BY <3>1 DEF HeadShape
      <3>3. q.to.start \in Int /\ q.from.start \in Int
        BY <3>2, TimeIsInt
      <3>4. QED
        BY <3>2, <3>3
    <2>2. AddMinutes(placed[x].end, delta) \in Time
      <3>1. delta \in Int /\ placed[x].end \in Time
        BY <1>3, <2>1 DEF PlaceShape
      <3> HIDE DEF delta
      <3>2. QED
        BY <3>1, AddMinutesInDay
    <2>3. MovedColumn(placed[x], q) =
             [placed[x] EXCEPT !.day = q.to.day, !.start = q.to.start,
                               !.end = AddMinutes(placed[x].end, delta)]
      BY <1>3 DEF MovedColumn, PlaceShape
    <2> HIDE DEF delta
    <2>4. QED
      BY <1>3, <2>1, <2>2, <2>3 DEF PlaceShape
  <1>6. DOMAIN new = T /\ \A x \in T : new[x] = MovedColumn(placed[x], q)
    OBVIOUS
  <1>7. /\ DOMAIN d = RequestFields /\ d.overtaken = q.overtaken /\ d.remaining = q.remaining
        /\ d.op = q.op /\ d.group = q.group /\ d.from = q.from /\ d.to = q.to /\ d.old = old
        /\ d.new = IF q.op = "clear" THEN q.new ELSE new
        /\ d.at = IF q.op = "clear" THEN "checked" ELSE "loaded"
    BY <1>1 DEF RequestTyped, RequestFields
  <1> HIDE DEF d, old, new, T
  <1>8. RequestTyped(d)
    <2>1. CASE q.op = "clear"
      BY <1>1, <1>3, <1>4, <1>7, <2>1 DEF RequestTyped
    <2>2. CASE q.op = "move"
      BY <1>1, <1>3, <1>4, <1>5, <1>6, <1>7, <2>2 DEF RequestTyped
    <2>3. QED
      BY <1>1, <2>1, <2>2
  <1>9. MoveComputed(d)
    BY <1>1, <1>4, <1>5, <1>6, <1>7 DEF MoveComputed
  <1>10. LoadedIsCurrent(d)
    BY <1>4, <1>7 DEF LoadedIsCurrent, SamePlace
  <1>11. LookedIsFree(d)
    BY <1>1, <1>7 DEF LookedIsFree
  <1>12. QED
    BY <1>2, <1>8, <1>9, <1>10, <1>11, Proceeds

\* The room was looked at, and is free at that moment.
LEMMA CheckOverlapKeeps ==
    ASSUME ScheduleInv, NEW q \in requests, CheckOverlap(q) PROVE ScheduleInv'
  <1> DEFINE d == [q EXCEPT !.at = "checked"]
  <1>1. CASE \E x \in DOMAIN q.new : Conflict(x, q.new[x])
    BY <1>1, DroppedKeeps DEF CheckOverlap
  <1>2. CASE ~\E x \in DOMAIN q.new : Conflict(x, q.new[x])
    <2>1. RequestTyped(q) /\ MoveComputed(q) /\ LoadedIsCurrent(q)
      BY DEF ScheduleInv, RequestsHold
    <2>2. /\ DOMAIN d = RequestFields /\ d.overtaken = q.overtaken
          /\ d.op = q.op /\ d.group = q.group /\ d.from = q.from /\ d.to = q.to
          /\ d.old = q.old /\ d.new = q.new /\ d.at = "checked" /\ d.remaining = q.remaining
      BY <2>1 DEF RequestTyped, RequestFields
    <2>3. q.overtaken \in BOOLEAN
      BY <2>1 DEF RequestTyped
    <2> HIDE DEF d
    <2>4. RequestTyped(d) /\ MoveComputed(d) /\ LoadedIsCurrent(d)
      BY <2>1, <2>2, <2>3, SameRequest
    <2>5. LookedIsFree(d)
      BY <1>2, <2>2 DEF LookedIsFree, Conflict
    <2>6. requests' = Others(q) \cup {d} /\ UNCHANGED <<program, received, marks>>
      BY <1>2 DEF CheckOverlap, d
    <2>7. QED
      BY <2>4, <2>5, <2>6, Proceeds
  <1>3. QED
    BY <1>1, <1>2

LEMMA CountRemainingKeeps ==
    ASSUME ScheduleInv, NEW q \in requests, CountRemaining(q) PROVE ScheduleInv'
  <1> DEFINE d == [q EXCEPT !.at = "counted",
                            !.remaining = IF q.group = NoGroup THEN {} ELSE Columns(q.group) \ {q.on}]
  <1>1. RequestTyped(q) /\ MoveComputed(q) /\ LoadedIsCurrent(q)
    BY DEF ScheduleInv, RequestsHold
  <1>2. /\ DOMAIN d = RequestFields /\ d.overtaken = q.overtaken /\ d.at = "counted"
        /\ d.op = q.op /\ d.group = q.group /\ d.from = q.from /\ d.to = q.to
        /\ d.old = q.old /\ d.new = q.new
    BY <1>1 DEF RequestTyped, RequestFields
  <1>3. q.overtaken \in BOOLEAN
    BY <1>1 DEF RequestTyped
  <1>4. requests' = Others(q) \cup {d} /\ UNCHANGED <<program, received, marks>>
    BY DEF CountRemaining
  <1> HIDE DEF d
  <1>5. RequestTyped(d) /\ MoveComputed(d) /\ LoadedIsCurrent(d)
    <2>1. q.op = "delete"
      BY DEF CountRemaining
    <2>2. QED
      BY <1>1, <1>2, <1>3, <2>1, SameRequest
  <1>6. LookedIsFree(d)
    BY <1>2 DEF LookedIsFree
  <1>7. QED
    BY <1>4, <1>5, <1>6, Proceeds

-------------------------------------------------------------------------------
(* A commit places sessions. *)

LEMMA WrittenTyped ==
    /\ \A now, old, new \in PlaceShape : Written(now, old, new) \in PlaceShape
    /\ \A now, old, new \in HeadShape : Written(now, old, new) \in HeadShape
  BY DEF Written, PlaceShape, HeadShape

\* What was loaded as it is becomes what the handler computed.
LEMMA WrittenAsMeant ==
    ASSUME NEW now \in PlaceShape, NEW old \in PlaceShape, NEW new \in PlaceShape, SamePlace(now, old)
    PROVE  SamePlace(Written(now, old, new), new)
  BY DEF Written, SamePlace, PlaceShape

\* What a commit does to the columns, and which of them stay without a mark.
LEMMA CommitPlaces ==
    ASSUME ScheduleInv, NEW q \in requests, CommitPlacement(q)
    PROVE  /\ PlacesTyped'
           /\ live' = live \cup Touched(q)
           /\ \A x \in Session \ Touched(q) : placed'[x] = placed[x]
           /\ ~q.overtaken => \A x \in Touched(q) : SamePlace(placed'[x], q.new[x])
           /\ Touched(q) \subseteq DOMAIN q.new
           /\ q.op = "move" => Touched(q) = Writes(q) /\ Writes(q) \subseteq DOMAIN q.old \cap live
           /\ \A x \in live' \ unchecked' :
                 /\ x \in Touched(q) => ~q.overtaken /\ q.op # "template"
                 /\ x \in Touched(q) /\ q.op = "move" =>
                       x \notin Stretched(q) /\ x \in live \ unchecked
                 /\ x \notin Touched(q) => x \in live \ unchecked
  <1>1. PlacesTyped /\ RequestTyped(q) /\ MoveComputed(q) /\ LoadedIsCurrent(q)
    BY DEF ScheduleInv, RequestsHold
  <1>2. q.op \notin {"delete", "clear"} /\ ~Stale(q)
    BY DEF CommitPlacement
  <1>3. /\ Writes(q) \subseteq DOMAIN q.old \cap live /\ DOMAIN q.old \subseteq DOMAIN q.new
        /\ Touched(q) \subseteq DOMAIN q.new
        /\ q.op = "move" => Touched(q) = Writes(q)
    <2>1. Unlinked(q) = {} /\ DOMAIN q.old \subseteq DOMAIN q.new
      BY <1>1, <1>2 DEF RequestTyped, Unlinked
    <2>2. Writes(q) \subseteq DOMAIN q.old \cap live
      BY <1>2, <2>1 DEF Stale, Writes
    <2>3. q.op = "move" => Inserts(q) = {}
      BY <1>1 DEF MoveComputed, Inserts
    <2>4. QED
      BY <2>1, <2>2, <2>3 DEF Touched, Inserts
  <1>4. /\ DOMAIN q.new \subseteq Session
        /\ \A x \in DOMAIN q.old : q.old[x] \in PlaceShape
        /\ \A x \in DOMAIN q.new : q.new[x] \in PlaceShape
    BY <1>1 DEF RequestTyped
  <1>5. /\ live' = live \cup Touched(q)
        /\ placed' = [x \in Session |->
               IF x \in Inserts(q) THEN q.new[x]
               ELSE IF x \in Writes(q) THEN Written(placed[x], q.old[x], q.new[x]) ELSE placed[x]]
    BY DEF CommitPlacement
  <1>6. placed' \in [Session -> PlaceShape]
    <2>1. ASSUME NEW x \in Session PROVE placed'[x] \in PlaceShape
      <3>1. placed[x] \in PlaceShape
        BY <1>1 DEF PlacesTyped
      <3>2. x \in Writes(q) => Written(placed[x], q.old[x], q.new[x]) \in PlaceShape
        BY <1>3, <1>4, <3>1, WrittenTyped
      <3>3. QED
        BY <1>4, <1>5, <3>1, <3>2 DEF Inserts
    <2>2. QED
      BY <1>5, <2>1
  <1>7. blocks' \subseteq Group /\ head' \in [Group -> HeadShape]
    <2>1. CASE q.op \in {"block", "move"}
      <3>1. q.group \in Group /\ q.from \in HeadShape /\ q.to \in HeadShape
        BY <1>1, <2>1 DEF RequestTyped
      <3>2. Written(head[q.group], q.from, q.to) \in HeadShape
        BY <1>1, <3>1, WrittenTyped DEF PlacesTyped
      <3>3. QED
        BY <1>1, <2>1, <3>1, <3>2 DEF CommitPlacement, PlacesTyped
    <2>2. CASE q.op \notin {"block", "move"}
      BY <1>1, <2>2 DEF CommitPlacement, PlacesTyped
    <2>3. QED
      BY <2>1, <2>2
  <1>8. PlacesTyped'
    BY <1>1, <1>3, <1>4, <1>5, <1>6, <1>7 DEF PlacesTyped
  <1>9. ASSUME ~q.overtaken, NEW x \in Touched(q) PROVE SamePlace(placed'[x], q.new[x])
    <2>1. CASE x \in Writes(q)
      <3>1. SamePlace(placed[x], q.old[x]) /\ placed[x] \in PlaceShape /\ x \notin Inserts(q)
        BY <1>1, <1>3, <1>4, <1>9, <2>1 DEF LoadedIsCurrent, PlacesTyped, Inserts
      <3>2. SamePlace(Written(placed[x], q.old[x], q.new[x]), q.new[x])
        BY <1>3, <1>4, <2>1, <3>1, WrittenAsMeant
      <3>3. QED
        BY <1>3, <1>4, <1>5, <2>1, <3>1, <3>2
    <2>2. CASE x \in Inserts(q)
      BY <1>4, <1>5, <2>2 DEF SamePlace, Inserts
    <2>3. QED
      BY <1>9, <2>1, <2>2 DEF Touched
  <1>10. unchecked' = IF q.overtaken \/ q.op = "template" THEN unchecked \cup Touched(q)
                      ELSE IF q.op = "edit" THEN unchecked \ Touched(q)
                      ELSE unchecked \cup Stretched(q)
    BY DEF CommitPlacement
  <1>11. q.op = "move" => Touched(q) \subseteq live
    BY <1>3
  <1>12. ASSUME NEW x \in live' \ unchecked'
         PROVE  /\ x \in Touched(q) => ~q.overtaken /\ q.op # "template"
                /\ x \in Touched(q) /\ q.op = "move" =>
                      x \notin Stretched(q) /\ x \in live \ unchecked
                /\ x \notin Touched(q) => x \in live \ unchecked
    <2>1. x \in Touched(q) => ~q.overtaken /\ q.op # "template"
      BY <1>10, <1>12
    <2>2. x \in Touched(q) /\ q.op = "move" => x \notin Stretched(q) /\ x \in live \ unchecked
      BY <1>3, <1>10, <1>11, <1>12, <2>1
    <2>3. x \notin Touched(q) => x \in live \ unchecked
      BY <1>5, <1>10, <1>12
    <2>4. QED
      BY <2>1, <2>2, <2>3
  <1>13. \A x \in Session \ Touched(q) : placed'[x] = placed[x]
    BY <1>5 DEF Touched
  <1>14. QED
    BY <1>3, <1>5, <1>8, <1>9, <1>12, <1>13

\* The other handlers that met the commit are marked; the rest know and have seen
\* what is so after it as before.
LEMMA OthersHold ==
    ASSUME ScheduleInv, NEW q \in requests, CommitPlacement(q)
    PROVE  RequestsHold'
  <1>1. requests' = Overtaken(q)
    BY DEF CommitPlacement
  <1>2. /\ PlacesTyped /\ RequestTyped(q)
        /\ live' = live \cup Touched(q)
        /\ \A x \in Session \ Touched(q) : placed'[x] = placed[x]
        /\ Touched(q) \subseteq DOMAIN q.new
        /\ ~q.overtaken => \A x \in Touched(q) : SamePlace(placed'[x], q.new[x])
        /\ \A x \in live' \ unchecked' :
              /\ x \in Touched(q) => ~q.overtaken
              /\ x \notin Touched(q) => x \in live \ unchecked
    BY CommitPlaces DEF ScheduleInv, RequestsHold
  <1>3. SUFFICES ASSUME NEW k \in Others(q), NEW e, e = [k EXCEPT !.overtaken = @ \/ Meets(q, k)]
                 PROVE  /\ RequestTyped(e) /\ MoveComputed(e)
                        /\ LoadedIsCurrent(e)' /\ LookedIsFree(e)'
    <2>1. \A e \in requests' : \E k \in Others(q) : e = [k EXCEPT !.overtaken = @ \/ Meets(q, k)]
      BY <1>1 DEF Overtaken
    <2>2. \A e : RequestTyped(e)' <=> RequestTyped(e)
      BY DEF RequestTyped
    <2>3. \A e : MoveComputed(e)' <=> MoveComputed(e)
      BY DEF MoveComputed
    <2>4. QED
      BY <1>3, <2>1, <2>2, <2>3 DEF RequestsHold
  <1>4. RequestTyped(k) /\ MoveComputed(k) /\ LoadedIsCurrent(k) /\ LookedIsFree(k)
    BY DEF ScheduleInv, RequestsHold, Others
  <1>5. /\ DOMAIN e = RequestFields /\ e.overtaken = (k.overtaken \/ Meets(q, k))
        /\ e.op = k.op /\ e.group = k.group /\ e.from = k.from /\ e.to = k.to
        /\ e.old = k.old /\ e.new = k.new /\ e.at = k.at /\ e.remaining = k.remaining
    BY <1>3, <1>4 DEF RequestTyped, RequestFields
  <1>6. RequestTyped(e) /\ MoveComputed(e)
    <2>1. e.overtaken \in BOOLEAN /\ (e.at = "counted" => k.op = "delete")
      BY <1>4, <1>5 DEF RequestTyped
    <2>2. QED
      BY <1>4, <1>5, <2>1, SameRequest
  <1>7. LoadedIsCurrent(e)'
    <2>1. SUFFICES ASSUME ~e.overtaken, NEW x \in DOMAIN e.old \cap live'
                   PROVE  SamePlace(placed'[x], e.old[x])
      BY DEF LoadedIsCurrent
    <2>2. ~k.overtaken /\ Touched(q) \cap DOMAIN k.old = {}
      BY <1>5, <2>1 DEF Meets
    <2>3. x \in live /\ x \in Session /\ x \notin Touched(q)
      BY <1>2, <1>5, <2>1, <2>2 DEF PlacesTyped
    <2>4. SamePlace(placed[x], k.old[x])
      BY <1>4, <1>5, <2>1, <2>2, <2>3 DEF LoadedIsCurrent
    <2>5. QED
      BY <1>2, <1>5, <2>3, <2>4
  <1>8. LookedIsFree(e)'
    <2>1. SUFFICES ASSUME e.at = "checked", e.op \in {"create", "edit", "move"}, ~e.overtaken,
                          NEW x \in DOMAIN e.new, NEW y \in live' \ (unchecked' \cup {x}),
                          e.new[x].room # NoRoom
                   PROVE  ~Clash(placed'[y], e.new[x])
      BY DEF LookedIsFree
    <2>2. /\ ~k.overtaken /\ k.at = "checked" /\ x \in DOMAIN k.new /\ e.new[x] = k.new[x]
          /\ ~Meets(q, k)
      BY <1>5, <2>1
    <2>3. CASE y \notin Touched(q)
      <3>1. y \in live \ unchecked /\ y \in Session /\ y # x
        BY <1>2, <2>1, <2>3 DEF PlacesTyped
      <3>2. ~Clash(placed[y], k.new[x])
        BY <1>4, <1>5, <2>1, <2>2, <3>1 DEF LookedIsFree
      <3>3. QED
        BY <1>2, <2>2, <2>3, <3>1, <3>2
    <2>4. CASE y \in Touched(q)
      <3>1. SamePlace(placed'[y], q.new[y])
        BY <1>2, <2>1, <2>4
      <3>2. ~(q.new[y].room # NoRoom /\ SharesRoom(q.new[y], k.new[x]))
        BY <2>2, <2>4 DEF Meets
      <3>3. ASSUME Clash(q.new[y], k.new[x]) PROVE FALSE
        BY <2>1, <2>2, <3>2, <3>3 DEF Clash, SharesRoom
      <3>4. QED
        BY <2>2, <3>1, <3>3, HeldByPlace
    <2>5. QED
      BY <2>3, <2>4
  <1>9. QED
    BY <1>6, <1>7, <1>8

\* Two sessions without a mark are not in one room at one time after the commit.
LEMMA CommitBooksOnce ==
    ASSUME ScheduleInv, NEW q \in requests, CommitPlacement(q)
    PROVE  NoDoubleBooking'
  <1>1. /\ PlacesTyped /\ RequestTyped(q) /\ MoveComputed(q) /\ LoadedIsCurrent(q)
        /\ LookedIsFree(q) /\ NoDoubleBooking
    BY DEF ScheduleInv, RequestsHold
  <1>2. /\ PlacesTyped'
        /\ live' = live \cup Touched(q)
        /\ \A x \in Session \ Touched(q) : placed'[x] = placed[x]
        /\ ~q.overtaken => \A x \in Touched(q) : SamePlace(placed'[x], q.new[x])
        /\ Touched(q) \subseteq DOMAIN q.new
        /\ q.op = "move" => Touched(q) = Writes(q) /\ Writes(q) \subseteq DOMAIN q.old \cap live
        /\ \A x \in live' \ unchecked' :
              /\ x \in Touched(q) => ~q.overtaken /\ q.op # "template"
              /\ x \in Touched(q) /\ q.op = "move" =>
                    x \notin Stretched(q) /\ x \in live \ unchecked
              /\ x \notin Touched(q) => x \in live \ unchecked
    BY CommitPlaces
  <1>3. q.op \notin {"delete", "clear"} /\ q.op \in Placing
    BY <1>1 DEF CommitPlacement, RequestTyped
  <1> DEFINE Apart(r, s) == r.room = NoRoom \/ ~SharesRoom(r, s) \/ Held(r) \cap Held(s) = {}
  <1>4. ASSUME NEW r, NEW s, Apart(r, s) PROVE Apart(s, r)
    BY <1>4 DEF SharesRoom
  <1>5. ASSUME NEW r, NEW s, NEW t, NEW u, SamePlace(r, t), SamePlace(s, u), Apart(t, u)
        PROVE  Apart(r, s)
    BY <1>5 DEF SamePlace, SharesRoom, Held
  \* One of them was placed by this commit.
  <1>6. ASSUME NEW x \in live' \ unchecked', NEW y \in live' \ unchecked',
               x \in Touched(q), y \notin Touched(q)
        PROVE  Apart(placed'[x], placed'[y])
    <2>1. /\ ~q.overtaken /\ q.op # "template" /\ x \in DOMAIN q.new
          /\ y \in live \ unchecked /\ y \in Session /\ y # x
          /\ placed'[y] = placed[y] /\ SamePlace(placed'[x], q.new[x])
      BY <1>1, <1>2, <1>6 DEF PlacesTyped
    <2>2. CASE q.new[x].room = NoRoom
      BY <2>1, <2>2 DEF SamePlace
    <2>3. CASE q.new[x].room # NoRoom
      <3>1. q.op \in {"create", "edit", "move"}
        BY <1>1, <1>3, <1>6, <2>1, <2>3 DEF RequestTyped, Placing
      <3>2. q.at = "checked"
        <4>1. q.at \in {"checked", "counted"}
          BY DEF CommitPlacement, Ready
        <4>2. q.at # "counted"
          BY <1>1, <1>3 DEF RequestTyped
        <4>3. QED
          BY <4>1, <4>2
      <3>3. ~Clash(placed[y], q.new[x])
        BY <1>1, <1>6, <2>1, <2>3, <3>1, <3>2 DEF LookedIsFree
      <3>4. placed[y] \in PlaceShape /\ q.new[x] \in PlaceShape
        BY <1>1, <1>6, <2>1 DEF PlacesTyped, RequestTyped
      <3>5. Apart(placed[y], q.new[x])
        BY <3>3, <3>4, NoClashIsDisjoint
      <3>6. QED
        BY <1>4, <1>5, <2>1, <3>5 DEF SamePlace
    <2>4. QED
      BY <2>2, <2>3
  \* Both of them were: the columns of a block that is new, or moved.
  <1>7. ASSUME NEW x \in live' \ unchecked', NEW y \in live' \ unchecked',
               x \in Touched(q), y \in Touched(q), x # y
        PROVE  Apart(placed'[x], placed'[y])
    <2>1. /\ ~q.overtaken /\ q.op # "template" /\ x \in DOMAIN q.new /\ y \in DOMAIN q.new
          /\ SamePlace(placed'[x], q.new[x]) /\ SamePlace(placed'[y], q.new[y])
      BY <1>2, <1>7
    <2>2. CASE q.op \in {"block", "add"}
      BY <1>1, <1>7, <2>1, <2>2 DEF RequestTyped, SamePlace
    <2>3. CASE q.op = "move"
      <3>1. /\ x \in Writes(q) \cap DOMAIN q.old /\ y \in Writes(q) \cap DOMAIN q.old
            /\ x \in live \ unchecked /\ y \in live \ unchecked
            /\ x \notin Stretched(q) /\ y \notin Stretched(q)
            /\ q.new[x].room = q.old[x].room /\ q.new[y].room = q.old[y].room
        BY <1>1, <1>2, <1>7, <2>1, <2>3 DEF MoveComputed
      <3>2. SamePlace(placed[x], q.old[x]) /\ SamePlace(placed[y], q.old[y])
        BY <1>1, <2>1, <3>1 DEF LoadedIsCurrent
      <3>3. ASSUME q.new[x].room # NoRoom, SharesRoom(q.new[x], q.new[y]),
                   Held(q.new[x]) # {}, Held(q.new[y]) # {}
            PROVE  FALSE
        <4>1. /\ q.from.start \in Held(q.old[x]) /\ q.old[x].day = q.from.day
              /\ q.from.start \in Held(q.old[y]) /\ q.old[y].day = q.from.day
          BY <1>1, <2>3, <3>1, <3>3, MovedHeldBefore
        <4>2. SharesRoom(placed[x], placed[y]) /\ placed[x].room # NoRoom
          BY <3>1, <3>2, <3>3, <4>1 DEF SamePlace, SharesRoom
        <4>3. q.from.start \in Held(placed[x]) \cap Held(placed[y])
          BY <3>2, <4>1, HeldByPlace
        <4>4. QED
          BY <1>1, <1>7, <3>1, <4>2, <4>3 DEF NoDoubleBooking
      <3>4. Apart(q.new[x], q.new[y])
        BY <3>3
      <3>5. SamePlace(placed'[x], q.new[x]) /\ SamePlace(placed'[y], q.new[y])
        BY <2>1
      <3> HIDE DEF Apart
      <3>6. QED
        BY <1>5, <3>4, <3>5
    <2>4. CASE q.op \in {"create", "edit"}
      BY <1>1, <1>7, <2>1, <2>4 DEF RequestTyped
    <2>5. QED
      BY <1>3, <2>1, <2>2, <2>3, <2>4 DEF Placing
  <1>8. ASSUME NEW x \in live' \ unchecked', NEW y \in live' \ unchecked',
               x \notin Touched(q), y \notin Touched(q), x # y
        PROVE  Apart(placed'[x], placed'[y])
    <2>1. /\ x \in live \ unchecked /\ y \in live \ unchecked
          /\ placed'[x] = placed[x] /\ placed'[y] = placed[y]
      BY <1>1, <1>2, <1>8 DEF PlacesTyped
    <2>2. QED
      BY <1>1, <1>8, <2>1 DEF NoDoubleBooking
  <1>9. QED
    BY <1>4, <1>6, <1>7, <1>8 DEF NoDoubleBooking

LEMMA CommitPlacementKeeps ==
    ASSUME ScheduleInv, NEW q \in requests, CommitPlacement(q) PROVE ScheduleInv'
  BY CommitPlaces, OthersHold, CommitBooksOnce DEF ScheduleInv

-------------------------------------------------------------------------------
(* Sessions and groups go. *)

\* Whoever is left stays where he is, and what was free stays free.
LEMMA RemovalKeeps ==
    ASSUME ScheduleInv, NEW gone, NEW groups, Remove(gone, groups),
           requests' \subseteq requests
    PROVE  ScheduleInv'
  <1>1. PlacesTyped /\ RequestsHold /\ NoDoubleBooking
    BY DEF ScheduleInv
  <1>2. /\ live' = live \ gone /\ unchecked' = unchecked \ gone
        /\ blocks' \subseteq blocks
    BY DEF Remove
  <1>3. ASSUME NEW x \in Session
        PROVE  placed'[x] \in PlaceShape /\ (x \notin gone => SamePlace(placed'[x], placed[x]))
    <2>1. placed[x] \in PlaceShape
      BY <1>1 DEF PlacesTyped
    <2>2. placed'[x] = IF x \in gone THEN NoRow
                       ELSE IF placed[x].group \in groups THEN [placed[x] EXCEPT !.group = NoGroup]
                       ELSE placed[x]
      BY DEF Remove
    <2>3. LET c == [placed[x] EXCEPT !.group = NoGroup] IN c \in PlaceShape /\ SamePlace(c, placed[x])
      BY <2>1 DEF PlaceShape, SamePlace
    <2>4. NoRow \in PlaceShape
      BY RowsTyped
    <2>5. SamePlace(placed[x], placed[x])
      BY DEF SamePlace
    <2>6. QED
      BY <2>1, <2>2, <2>3, <2>4, <2>5
  <1>4. PlacesTyped'
    <2>1. placed' \in [Session -> PlaceShape]
      BY <1>3 DEF Remove
    <2>2. head' \in [Group -> HeadShape]
      BY <1>1, HeadsTyped DEF Remove, PlacesTyped
    <2>3. QED
      BY <1>1, <1>2, <2>1, <2>2 DEF PlacesTyped
  <1>5. \A x \in live' : x \in live /\ x \in Session /\ SamePlace(placed'[x], placed[x])
    BY <1>1, <1>2, <1>3 DEF PlacesTyped
  <1>6. live' \ unchecked' \subseteq live \ unchecked
    BY <1>2
  <1>7. NoDoubleBooking'
    <2>1. SUFFICES ASSUME NEW x \in live' \ unchecked', NEW y \in live' \ unchecked', x # y,
                          placed'[x].room # NoRoom, SharesRoom(placed'[x], placed'[y])
                   PROVE  Held(placed'[x]) \cap Held(placed'[y]) = {}
      BY DEF NoDoubleBooking
    <2>2. placed[x].room # NoRoom /\ SharesRoom(placed[x], placed[y])
      BY <1>5, <2>1 DEF SamePlace, SharesRoom
    <2>3. Held(placed[x]) \cap Held(placed[y]) = {}
      BY <1>1, <1>6, <2>1, <2>2 DEF NoDoubleBooking
    <2>4. Held(placed'[x]) = Held(placed[x]) /\ Held(placed'[y]) = Held(placed[y])
      BY <1>5, <2>1, HeldByPlace
    <2>5. QED
      BY <2>3, <2>4
  <1>8. ASSUME NEW k \in requests' PROVE (RequestTyped(k) /\ MoveComputed(k))'
    BY <1>1, <1>8 DEF RequestsHold, RequestTyped, MoveComputed
  <1>9. ASSUME NEW k \in requests' PROVE LoadedIsCurrent(k)'
    <2>1. LoadedIsCurrent(k)
      BY <1>1, <1>9 DEF RequestsHold
    <2>2. SUFFICES ASSUME ~k.overtaken, NEW x \in DOMAIN k.old \cap live'
                   PROVE  SamePlace(placed'[x], k.old[x])
      BY DEF LoadedIsCurrent
    <2>3. SamePlace(placed[x], k.old[x])
      BY <1>5, <2>1, <2>2 DEF LoadedIsCurrent
    <2>4. QED
      BY <1>5, <2>2, <2>3 DEF SamePlace
  <1>10. ASSUME NEW k \in requests' PROVE LookedIsFree(k)'
    <2>1. LookedIsFree(k)
      BY <1>1, <1>10 DEF RequestsHold
    <2>2. SUFFICES ASSUME k.at = "checked", k.op \in {"create", "edit", "move"}, ~k.overtaken,
                          NEW x \in DOMAIN k.new, NEW y \in live' \ (unchecked' \cup {x}),
                          k.new[x].room # NoRoom
                   PROVE  ~Clash(placed'[y], k.new[x])
      BY DEF LookedIsFree
    <2>3. ~Clash(placed[y], k.new[x])
      BY <1>6, <2>1, <2>2 DEF LookedIsFree
    <2>4. QED
      BY <1>5, <2>2, <2>3, HeldByPlace
  <1>11. QED
    BY <1>4, <1>7, <1>8, <1>9, <1>10 DEF ScheduleInv, RequestsHold

LEMMA CommitDeletionKeeps ==
    ASSUME ScheduleInv, NEW q \in requests, CommitDeletion(q) PROVE ScheduleInv'
  <1> DEFINE gone == IF q.op = "clear" THEN DOMAIN q.old ELSE {q.on}
             groups == IF q.op = "clear" \/ Dissolves(q) THEN {q.group} ELSE {}
  <1>1. Remove(gone, groups) /\ requests' \subseteq requests
    BY DEF CommitDeletion, Others
  <1> HIDE DEF gone, groups
  <1>2. QED
    BY <1>1, RemovalKeeps

LEMMA ResetKeeps ==
    ASSUME ScheduleInv, ResetAllData PROVE ScheduleInv'
  BY RemovalKeeps DEF ResetAllData

-------------------------------------------------------------------------------
LEMMA InitScheduleInv == ScheduleInit => ScheduleInv
  <1> SUFFICES ASSUME ScheduleInit PROVE ScheduleInv
    OBVIOUS
  <1>1. NoHead \in HeadShape /\ NoHead.day \in Day /\ NoHead.start \in Time /\ 1 \in Time
    BY HeadsTyped, ScheduleAssumption DEF HeadShape, Time, ScheduleAssumption
  <1>2. \A g \in Group :
           LET r == Row(NoHead.day, NoHead.start, 1, NoRoom, g) IN r \in PlaceShape /\ r.room = NoRoom
    BY <1>1, ColumnTyped
  <1>3. PlacesTyped
    <2>1. placed \in [Session -> PlaceShape]
      BY <1>2, RowsTyped DEF ScheduleInit
    <2>2. head \in [Group -> HeadShape]
      BY <1>1 DEF ScheduleInit
    <2>3. live \subseteq Session /\ blocks \subseteq Group
      BY DEF ScheduleInit
    <2>4. QED
      BY <2>1, <2>2, <2>3 DEF PlacesTyped
  <1>4. NoDoubleBooking
    <2>1. \A x \in live : placed[x].room = NoRoom
      BY <1>2 DEF ScheduleInit
    <2>2. QED
      BY <2>1 DEF NoDoubleBooking
  <1>5. RequestsHold
    BY DEF ScheduleInit, RequestsHold
  <1>6. QED
    BY <1>3, <1>4, <1>5 DEF ScheduleInv

LEMMA NextScheduleInv == ScheduleInv /\ [ScheduleNext]_scheduleVars => ScheduleInv'
  <1> SUFFICES ASSUME ScheduleInv, [ScheduleNext]_scheduleVars PROVE ScheduleInv'
    OBVIOUS
  <1>1. ASSUME NEW day \in Day, NEW start \in Time, NEW end \in Time, NEW room \in Room \cup {NoRoom},
               \/ CreateSession(day, start, end, room) \/ ApplyTemplate(day, start, end, room)
               \/ \E x \in live :
                     UpdateSession(x, [day |-> day, start |-> start, end |-> end, room |-> room])
        PROVE  ScheduleInv'
    BY <1>1, CreateSessionKeeps, UpdateSessionKeeps
  <1>2. ASSUME NEW day \in Day, NEW start \in Time, NEW g \in blocks, UpdateGroup(g, day, start)
        PROVE  ScheduleInv'
    BY <1>2, UpdateGroupKeeps
  <1>3. ASSUME NEW day \in Day, NEW start \in Time, NEW count \in Count, NEW minutes \in Duration,
               CreateParallelBlock(count, day, start, minutes)
        PROVE  ScheduleInv'
    BY <1>3, CreateBlockKeeps
  <1>4. ASSUME NEW g \in blocks, NEW minutes \in Duration, AddColumn(g, minutes) PROVE ScheduleInv'
    BY <1>4, AddColumnKeeps
  <1>5. ASSUME (\E g \in blocks : DeleteGroup(g)) \/ (\E x \in live : DeleteSession(x)) PROVE ScheduleInv'
    BY <1>5, DeletionsKeep
  <1>6. ASSUME NEW q \in requests,
               \/ LoadColumns(q) \/ CheckOverlap(q) \/ CountRemaining(q)
               \/ CommitPlacement(q) \/ CommitDeletion(q) \/ RollBack(q)
        PROVE  ScheduleInv'
    BY <1>6, LoadColumnsKeeps, CheckOverlapKeeps, CountRemainingKeeps, CommitPlacementKeeps, CommitDeletionKeeps,
       DroppedKeeps DEF RollBack
  <1>7. CASE ResetAllData
    BY <1>7, ResetKeeps
  <1>8. CASE UNCHANGED scheduleVars
    <2>1. UNCHANGED <<live, placed, blocks, head, requests, unchecked>>
      BY <1>8 DEF scheduleVars
    <2>2. PlacesTyped' /\ NoDoubleBooking'
      BY <2>1 DEF ScheduleInv, PlacesTyped, NoDoubleBooking
    <2>3. RequestsHold'
      BY <2>1 DEF ScheduleInv, RequestsHold, RequestTyped, MoveComputed, LoadedIsCurrent, LookedIsFree
    <2>4. QED
      BY <2>2, <2>3 DEF ScheduleInv
  <1>9. QED
    BY <1>1, <1>2, <1>3, <1>4, <1>5, <1>6, <1>7, <1>8 DEF ScheduleNext

LEMMA ScheduleConsistent == ScheduleSpec => []ScheduleInv
  BY InitScheduleInv, NextScheduleInv, PTL DEF ScheduleSpec

\* The columns of sessions and blocks have their types: every time is of one
\* day, wherever blocks are moved to.
THEOREM ScheduleTyped == ScheduleSpec => []PlacesTyped
  <1>1. ScheduleInv => PlacesTyped
    BY DEF ScheduleInv
  <1>2. QED
    BY <1>1, ScheduleConsistent, PTL

\* No room is booked twice but by the named causes, however many requests of
\* whatever kind overlap.
THEOREM RoomsAreBookedOnce == ScheduleSpec => []NoDoubleBooking
  <1>1. ScheduleInv => NoDoubleBooking
    BY DEF ScheduleInv
  <1>2. QED
    BY <1>1, ScheduleConsistent, PTL

-------------------------------------------------------------------------------
(* Blocks. *)

Creating == {"create", "block", "add", "template"}
Loading == {"edit", "move", "clear"}

Uncrossed(g, ops) == <<g, ops>> \notin crossed

\* What a handler does to a block, by its kind.
BlockShape(q) ==
    /\ q.group \in Group \cup {NoGroup}
    /\ q.op \in {"block", "add", "move", "clear"} => q.group \in Group
    /\ q.op \in {"create", "template"} => q.group = NoGroup
    /\ q.op \in Creating \cup {"delete"} => DOMAIN q.old = {}
    /\ q.op \in Loading => \A x \in DOMAIN q.old : q.old[x].group = q.group
    /\ \A x \in DOMAIN q.new : q.new[x].group = q.group
    /\ q.op \in {"block", "add"} =>
          \A x \in DOMAIN q.new : BlockHead(q.new[x].day, q.new[x].start) = q.to
    /\ q.op \in {"block", "add", "edit"} =>
          \A x \in DOMAIN q.new : q.new[x].length = Length(q.new[x])
    /\ q.op = "block" => Cardinality(DOMAIN q.new) >= 2
    /\ q.op \in {"edit", "move"} => DOMAIN q.new = DOMAIN q.old
    /\ (q.op = "edit" /\ q.group # NoGroup) => \A x \in DOMAIN q.new :
          q.new[x].day = q.old[x].day /\ q.new[x].start = q.old[x].start
    /\ q.op = "move" => \A x \in DOMAIN q.new : q.new[x].length = q.old[x].length

\* The sessions and the block a handler will create are not there ...
IdsAreFree(q) ==
    /\ q.op \in Creating => DOMAIN q.new \cap live = {}
    /\ q.op = "block" => q.group \notin blocks

\* ... and no other handler works with them.
NewTo(q, k) ==
    /\ q.op \in Creating =>
          /\ DOMAIN q.new \cap DOMAIN k.old = {} /\ DOMAIN q.new \cap k.remaining = {}
          /\ k.op \in Creating => DOMAIN q.new \cap DOMAIN k.new = {}
          /\ k.op = "delete" => k.on \notin DOMAIN q.new
    /\ q.op = "block" => k.group # q.group

\* A session that was loaded stays in its block as long as there is the block.
GroupNow(q) == IF q.group \in blocks THEN q.group ELSE NoGroup
StaysInBlock(q) ==
    /\ q.op \in Loading => \A x \in DOMAIN q.old \cap live : placed[x].group = GroupNow(q)
    /\ (q.op = "delete" /\ q.on \in live) => placed[q.on].group = GroupNow(q)

\* A handler knows when its block starts, and a move that no other met between its two
\* queries all of its columns ...
KnowsBlock(q) ==
    /\ q.op = "block" => q.from = head[q.group]
    /\ (q.group \in blocks /\ Uncrossed(q.group, {"add", "move"})) =>
           /\ q.op = "add" => q.to = head[q.group]
           /\ (q.op = "move" /\ Uncrossed(q.group, {"load", "move"})) =>
                 IF q.at = "received" THEN q.from = head[q.group]
                 ELSE Columns(q.group) \subseteq DOMAIN q.old /\ \A x \in DOMAIN q.old : Aligned(q, x)

\* ... and what they are ...
KnowsColumns(q) ==
    (/\ q.group \in blocks /\ q.op \in {"edit", "move"}
     /\ Uncrossed(q.group, {q.op}) /\ Uncrossed(q.group, {"edit", "move"})) =>
        \A x \in DOMAIN q.old \cap live : placed[x] = q.old[x]

\* ... and a deletion that no column it has counted is gone.
CountIsCurrent(q) ==
    /\ q.op = "delete" => q.at # "checked"
    /\ (q.at = "counted" /\ q.group \in blocks /\ Uncrossed(q.group, {"delete"})) =>
           q.remaining \subseteq Columns(q.group) \ {q.on}

BlockRequest(q) ==
    /\ BlockShape(q) /\ IdsAreFree(q) /\ StaysInBlock(q)
    /\ KnowsBlock(q) /\ KnowsColumns(q) /\ CountIsCurrent(q)

GroupsExist == \A x \in live : placed[x].group \in blocks \cup {NoGroup}

HandlersHold ==
    /\ \A q \in requests : BlockRequest(q)
    /\ \A q, k \in requests : q # k => NewTo(q, k)

BlocksInv == GroupsExist /\ BlocksHold /\ HandlersHold

\* Two requests for the same, at whatever points of their handlers.
Alike(d, q) ==
    /\ d.op = q.op /\ d.group = q.group /\ d.on = q.on /\ d.old = q.old /\ d.new = q.new
    /\ d.from = q.from /\ d.to = q.to
    /\ d.at = "received" <=> q.at = "received"

LEMMA AlikeRequest ==
    ASSUME NEW q, NEW d, Alike(d, q), BlockRequest(q)
    PROVE  /\ BlockShape(d) /\ IdsAreFree(d) /\ StaysInBlock(d)
           /\ KnowsBlock(d) /\ KnowsColumns(d)
           /\ (d.at = q.at /\ d.remaining = q.remaining) => BlockRequest(d)
  <1>1. BlockShape(d) /\ IdsAreFree(d)
    BY DEF Alike, BlockRequest, BlockShape, IdsAreFree
  <1>2. StaysInBlock(d)
    BY DEF Alike, BlockRequest, StaysInBlock, GroupNow
  <1>3. KnowsBlock(d)
    BY DEF Alike, BlockRequest, KnowsBlock, Aligned
  <1>4. KnowsColumns(d)
    BY DEF Alike, BlockRequest, KnowsColumns
  <1>5. (d.at = q.at /\ d.remaining = q.remaining) => CountIsCurrent(d)
    BY DEF Alike, BlockRequest, CountIsCurrent
  <1>6. QED
    BY <1>1, <1>2, <1>3, <1>4, <1>5 DEF BlockRequest

\* What is said of a handler depends on the program and on what has crossed.
LEMMA SameProgram ==
    ASSUME NEW q, UNCHANGED <<program, marks>>, BlockRequest(q)
    PROVE  BlockRequest(q)'
  <1>1. UNCHANGED <<live, placed, blocks, head, crossed>>
    BY DEF program, marks
  <1>2. BlockShape(q)' /\ IdsAreFree(q)'
    BY <1>1 DEF BlockRequest, BlockShape, IdsAreFree
  <1>3. StaysInBlock(q)'
    BY <1>1 DEF BlockRequest, StaysInBlock, GroupNow
  <1>4. KnowsBlock(q)' /\ KnowsColumns(q)' /\ CountIsCurrent(q)'
    BY <1>1 DEF BlockRequest, KnowsBlock, KnowsColumns, CountIsCurrent, Uncrossed, Columns, Aligned
  <1>5. QED
    BY <1>2, <1>3, <1>4 DEF BlockRequest

LEMMA SameProgramHolds ==
    ASSUME BlocksInv, UNCHANGED <<program, marks>>,
           \A q \in requests' : BlockRequest(q),
           \A q, k \in requests' : q # k => NewTo(q, k)
    PROVE  BlocksInv'
  <1>1. UNCHANGED <<live, placed, blocks, head, crossed, clamped, leftover>>
    BY DEF program, marks
  <1>2. GroupsExist' /\ BlocksHold'
    BY <1>1 DEF BlocksInv, GroupsExist, BlocksHold, BlocksHaveColumns, ColumnsStartTogether,
       LengthsKept, Torn, Columns
  <1>3. \A q \in requests' : BlockRequest(q)'
    BY SameProgram
  <1>4. \A q, k \in requests' : q # k => NewTo(q, k)'
    BY DEF NewTo
  <1>5. QED
    BY <1>2, <1>3, <1>4 DEF BlocksInv, HandlersHold

\* A request that is received knows what there is.
LEMMA BlocksReceived ==
    ASSUME PlacesTyped, BlocksInv,
           NEW op \in Placing \cup {"delete", "clear"}, NEW g, NEW on,
           NEW old, NEW new, NEW to, NEW at \in {"received", "loaded", "checked"},
           g \in blocks \cup {NoGroup} \cup FreeGroup,
           op \in {"add", "move", "clear"} => g \in blocks,
           op \in {"edit", "delete"} => g \in blocks \cup {NoGroup},
           op = "block" => g \in FreeGroup,
           op \in {"create", "template"} => g = NoGroup,
           DOMAIN old \subseteq live, \A x \in DOMAIN old : old[x] = placed[x] /\ placed[x].group = g,
           op \in Creating => DOMAIN new \subseteq Free,
           op \in Creating \cup {"delete"} => DOMAIN old = {},
           op \in {"edit", "move"} => DOMAIN new = DOMAIN old,
           op = "delete" => on \in live /\ placed[on].group = g /\ at = "loaded",
           op = "move" => at = "received",
           op = "add" => to = head[g],
           op = "block" => Cardinality(DOMAIN new) >= 2,
           \A x \in DOMAIN new :
               /\ new[x].group = g
               /\ op \in {"block", "add"} => BlockHead(new[x].day, new[x].start) = to
               /\ op \in {"block", "add", "edit"} => new[x].length = Length(new[x])
               /\ (op = "edit" /\ g # NoGroup) => new[x].day = old[x].day /\ new[x].start = old[x].start
               /\ op = "move" => new[x].length = old[x].length,
           Receive(op, g, on, old, new, to, at)
    PROVE  BlocksInv'
  <1> DEFINE rec == [n |-> received, op |-> op, group |-> g, on |-> on,
                     old |-> old, new |-> new, at |-> at, remaining |-> {},
                     from |-> IF g = NoGroup THEN NoHead ELSE head[g], to |-> to,
                     overtaken |-> FALSE]
  <1>1. /\ requests' = requests \cup {rec} /\ UNCHANGED <<program, marks>>
    BY DEF Receive
  <1>2. /\ rec.op = op /\ rec.group = g /\ rec.on = on /\ rec.old = old /\ rec.new = new
        /\ rec.at = at /\ rec.remaining = {} /\ rec.to = to
        /\ g # NoGroup => rec.from = head[g]
    OBVIOUS
  <1> HIDE DEF rec
  <1>3. blocks \subseteq Group /\ NoGroup \notin Group /\ FreeGroup \subseteq Group \ blocks
    BY ScheduleAssumption DEF PlacesTyped, ScheduleAssumption, FreeGroup
  <1>4. BlockShape(rec)
    BY <1>2, <1>3 DEF BlockShape, Loading, Creating, Placing
  <1>5. IdsAreFree(rec)
    BY <1>2, <1>3 DEF IdsAreFree, Free, Creating
  <1>6. StaysInBlock(rec)
    BY <1>2, <1>3 DEF StaysInBlock, GroupNow, Loading
  <1>7. KnowsBlock(rec)
    <2>1. op \in {"block", "move"} => rec.from = head[g]
      BY <1>2, <1>3
    <2>2. QED
      BY <1>2, <2>1 DEF KnowsBlock
  <1>8. KnowsColumns(rec) /\ CountIsCurrent(rec)
    BY <1>2 DEF KnowsColumns, CountIsCurrent
  <1>9. \A q \in requests' : BlockRequest(q)
    BY <1>1, <1>4, <1>5, <1>6, <1>7, <1>8 DEF BlocksInv, HandlersHold, BlockRequest
  <1>10. ASSUME NEW k \in requests PROVE NewTo(rec, k) /\ NewTo(k, rec)
    <2>1. BlockShape(k) /\ IdsAreFree(k)
      BY DEF BlocksInv, HandlersHold, BlockRequest
    <2>2. /\ Free \cap (DOMAIN k.old \cup DOMAIN k.new \cup k.remaining \cup {k.on}) = {}
          /\ k.group \notin FreeGroup
      BY DEF Free, Using, FreeGroup
    <2>3. NewTo(rec, k)
      BY <1>2, <2>2 DEF NewTo, Creating
    <2>4. NewTo(k, rec)
      <3>1. k.op \in Creating => DOMAIN k.new \cap DOMAIN old = {} /\ (op = "delete" => on \notin DOMAIN k.new)
        BY <2>1 DEF IdsAreFree
      <3>2. op \in Creating => DOMAIN k.new \cap DOMAIN new = {}
        BY <2>2
      <3>3. k.op = "block" => k.group \notin blocks /\ k.group # NoGroup /\ k.group \notin FreeGroup
        BY <1>3, <2>1, <2>2 DEF IdsAreFree, BlockShape
      <3>4. QED
        BY <1>2, <3>1, <3>2, <3>3 DEF NewTo
    <2>5. QED
      BY <2>3, <2>4
  <1>11. \A q, k \in requests' : q # k => NewTo(q, k)
    BY <1>1, <1>10 DEF BlocksInv, HandlersHold
  <1>12. QED
    BY <1>1, <1>9, <1>11, SameProgramHolds

LEMMA CreateSessionKeepsBlocks ==
    ASSUME PlacesTyped, BlocksInv, NEW day, NEW start, NEW end, NEW room,
           CreateSession(day, start, end, room) \/ ApplyTemplate(day, start, end, room)
    PROVE  BlocksInv'
  <1> DEFINE x == CHOOSE y \in Free : TRUE
             new == [y \in {x} |-> Row(day, start, end, room, NoGroup)]
  <1>1. DOMAIN new \subseteq Free /\ \A y \in DOMAIN new : new[y].group = NoGroup
    BY DEF CreateSession, ApplyTemplate, Row
  <1>2. DOMAIN Nothing = {}
    BY DEF Nothing
  <1>3. \/ Receive("create", NoGroup, NoSession, Nothing, new, NoHead, "loaded")
        \/ Receive("template", NoGroup, NoSession, Nothing, new, NoHead, "checked")
    BY DEF CreateSession, ApplyTemplate
  <1> HIDE DEF new
  <1>4. CASE Receive("create", NoGroup, NoSession, Nothing, new, NoHead, "loaded")
    BY <1>1, <1>2, <1>4, BlocksReceived DEF Placing, Creating
  <1>5. CASE Receive("template", NoGroup, NoSession, Nothing, new, NoHead, "checked")
    BY <1>1, <1>2, <1>5, BlocksReceived DEF Placing, Creating
  <1>6. QED
    BY <1>3, <1>4, <1>5

LEMMA UpdateSessionKeepsBlocks ==
    ASSUME PlacesTyped, BlocksInv, NEW x \in live, NEW p, UpdateSession(x, p)
    PROVE  BlocksInv'
  <1> DEFINE old == Of({x})
             new == [y \in {x} |-> Applied(placed[x], p)]
             g == placed[x].group
  <1>1. placed[x] \in PlaceShape /\ g \in blocks \cup {NoGroup}
    BY DEF PlacesTyped, BlocksInv, GroupsExist
  <1>2. LET c == Applied(placed[x], p)
        IN  /\ c.group = g /\ c.length = Length(c)
            /\ g # NoGroup => c.day = placed[x].day /\ c.start = placed[x].start
    BY <1>1 DEF Applied, AppliedWhole, PlaceShape, Length
  <1>3. DOMAIN new = {x} /\ new[x] = Applied(placed[x], p)
    OBVIOUS
  <1>4. DOMAIN old = {x} /\ old[x] = placed[x]
    BY DEF Of
  <1>5. Receive("edit", g, NoSession, old, new, NoHead, "loaded")
    BY DEF UpdateSession
  <1> HIDE DEF old, new
  <1>6. QED
    BY <1>1, <1>2, <1>3, <1>4, <1>5, BlocksReceived DEF Placing, Creating

LEMMA CreateBlockKeepsBlocks ==
    ASSUME PlacesTyped, BlocksInv, NEW count \in Count, NEW day, NEW start, NEW minutes,
           CreateParallelBlock(count, day, start, minutes)
    PROVE  BlocksInv'
  <1> DEFINE end == AddMinutes(start, minutes)
             g == CHOOSE h \in FreeGroup : TRUE
             S == CHOOSE T \in SUBSET Free : Cardinality(T) = count
             new == [x \in S |-> Row(day, start, end, NoRoom, g)]
             to == BlockHead(day, start)
  <1>1. S \subseteq Free /\ Cardinality(S) = count
    <2>1. IsFiniteSet(Free) /\ count \in Nat
      BY ScheduleAssumption, FreeTyped, FS_Subset DEF ScheduleAssumption
    <2>2. \E T \in SUBSET Free : Cardinality(T) = count
      BY <2>1, PartOfSize DEF CreateParallelBlock
    <2>3. QED
      BY <2>2
  <1>2. count >= 2
    BY ScheduleAssumption DEF ScheduleAssumption
  <1>3. g \in FreeGroup
    BY DEF CreateParallelBlock
  <1>4. LET r == Row(day, start, end, NoRoom, g)
        IN  /\ r.group = g /\ r.length = Length(r)
            /\ BlockHead(r.day, r.start) = to
    BY DEF Row, Length
  <1>5. DOMAIN new = S /\ \A x \in S : new[x] = Row(day, start, end, NoRoom, g)
    OBVIOUS
  <1>6. Receive("block", g, NoSession, Nothing, new, to, "checked") /\ DOMAIN Nothing = {}
    BY DEF CreateParallelBlock, Nothing
  <1> HIDE DEF end, g, S, new, to
  <1>7. QED
    BY <1>1, <1>2, <1>3, <1>4, <1>5, <1>6, BlocksReceived DEF Placing, Creating

LEMMA UpdateGroupKeepsBlocks ==
    ASSUME PlacesTyped, BlocksInv, NEW g \in blocks, NEW day, NEW start, UpdateGroup(g, day, start)
    PROVE  BlocksInv'
  <1> DEFINE none == Nothing
             to == BlockHead(day, start)
             op == "move"
             at == "received"
  <1>1. Receive(op, g, NoSession, none, none, to, at) /\ DOMAIN none = {}
    BY DEF UpdateGroup, Nothing
  <1>2. op \in Placing /\ op = "move" /\ at = "received" /\ op \notin Creating
    BY DEF Placing, Creating
  <1> HIDE DEF none, to, op, at
  <1>3. DOMAIN none \subseteq live /\ \A x \in DOMAIN none : none[x] = placed[x] /\ placed[x].group = g
    BY <1>1
  <1>4. \A x \in DOMAIN none :
           /\ none[x].group = g
           /\ op \in {"block", "add"} => BlockHead(none[x].day, none[x].start) = to
           /\ op \in {"block", "add", "edit"} => none[x].length = Length(none[x])
           /\ (op = "edit" /\ g # NoGroup) => none[x].day = none[x].day /\ none[x].start = none[x].start
           /\ op = "move" => none[x].length = none[x].length
    BY <1>1
  <1>5. QED
    BY <1>1, <1>2, <1>3, <1>4, BlocksReceived

LEMMA AddColumnKeepsBlocks ==
    ASSUME PlacesTyped, BlocksInv, NEW g \in blocks, NEW minutes, AddColumn(g, minutes)
    PROVE  BlocksInv'
  <1> DEFINE row == Row(head[g].day, head[g].start, AddMinutes(head[g].start, minutes), NoRoom, g)
             new == [x \in {CHOOSE y \in Free : TRUE} |-> row]
  <1>1. head[g] \in HeadShape
    BY DEF PlacesTyped
  <1>2. row.group = g /\ row.length = Length(row) /\ BlockHead(row.day, row.start) = head[g]
    BY <1>1 DEF Row, Length, BlockHead, HeadShape
  <1>3. DOMAIN new \subseteq Free /\ DOMAIN Nothing = {} /\ \A x \in DOMAIN new : new[x] = row
    BY DEF AddColumn, Nothing
  <1>4. Receive("add", g, NoSession, Nothing, new, head[g], "checked")
    BY DEF AddColumn
  <1> DEFINE to == head[g]
             old == Nothing
  <1>5. \A x \in DOMAIN new :
           /\ new[x].group = g /\ new[x].length = Length(new[x])
           /\ BlockHead(new[x].day, new[x].start) = to
    BY <1>2, <1>3
  <1> DEFINE op == "add"
  <1>6. /\ op \in Placing /\ op \notin {"edit", "delete", "move", "block", "create", "template"}
        /\ DOMAIN old = {} /\ to = head[g] /\ Receive(op, g, NoSession, old, new, to, "checked")
    BY <1>3, <1>4 DEF Placing
  <1> HIDE DEF row, new, old, to, op
  <1>7. DOMAIN old \subseteq live /\ \A x \in DOMAIN old : old[x] = placed[x] /\ placed[x].group = g
    BY <1>6
  <1>8. QED
    BY <1>3, <1>5, <1>6, <1>7, BlocksReceived

LEMMA DeletionsKeepBlocks ==
    ASSUME PlacesTyped, BlocksInv,
           \/ \E x \in live : DeleteSession(x)
           \/ \E g \in blocks : DeleteGroup(g)
    PROVE  BlocksInv'
  <1>1. DOMAIN Nothing = {}
    BY DEF Nothing
  <1>2. ASSUME NEW x \in live, DeleteSession(x) PROVE BlocksInv'
    <2>1. placed[x].group \in blocks \cup {NoGroup}
      BY DEF BlocksInv, GroupsExist
    <2>2. Receive("delete", placed[x].group, x, Nothing, Nothing, NoHead, "loaded")
      BY <1>2 DEF DeleteSession
    <2> DEFINE g == placed[x].group
               none == Nothing
               op == "delete"
               at == "loaded"
    <2>3. /\ g \in blocks \cup {NoGroup} /\ placed[x].group = g /\ DOMAIN none = {}
          /\ Receive(op, g, x, none, none, NoHead, at)
      BY <1>1, <2>1, <2>2
    <2>4. /\ op \in Placing \cup {"delete", "clear"} /\ at \in {"loaded", "checked"}
          /\ op \notin Creating \cup {"add", "move", "clear", "block", "edit", "create", "template"}
          /\ op = "delete" => x \in live /\ placed[x].group = g /\ at = "loaded"
      BY <1>2 DEF Placing, Creating
    <2> HIDE DEF g, none, op, at
    <2>5. /\ DOMAIN none \subseteq live
          /\ \A y \in DOMAIN none : none[y] = placed[y] /\ placed[y].group = g
      BY <2>3
    <2>6. \A y \in DOMAIN none :
             /\ none[y].group = g
             /\ op \in {"block", "add"} => BlockHead(none[y].day, none[y].start) = NoHead
             /\ op \in {"block", "add", "edit"} => none[y].length = Length(none[y])
             /\ (op = "edit" /\ g # NoGroup) =>
                   none[y].day = none[y].day /\ none[y].start = none[y].start
             /\ op = "move" => none[y].length = none[y].length
      BY <2>3
    <2>7. QED
      BY <2>3, <2>4, <2>5, <2>6, BlocksReceived
  <1>3. ASSUME NEW g \in blocks, DeleteGroup(g) PROVE BlocksInv'
    <2>1. Receive("clear", g, NoSession, Nothing, Nothing, NoHead, "received")
      BY <1>3 DEF DeleteGroup
    <2> DEFINE old == Nothing
    <2>2. DOMAIN old \subseteq live /\ \A x \in DOMAIN old : old[x] = placed[x] /\ placed[x].group = g
      BY <1>1
    <2> HIDE DEF old
    <2>3. Receive("clear", g, NoSession, old, Nothing, NoHead, "received")
      BY <2>1 DEF old
    <2>4. QED
      BY <1>1, <2>2, <2>3, BlocksReceived DEF Placing, Creating
  <1>4. QED
    BY <1>2, <1>3

\* A handler that has gone on, and may have loaded more.
Continues(d, q) ==
    /\ d.op = q.op /\ d.group = q.group /\ d.on = q.on
    /\ q.op \in Creating => d.new = q.new
    /\ DOMAIN d.old \subseteq DOMAIN q.old \cup live
    /\ d.remaining \subseteq q.remaining \cup live

\* One handler is further, or done; the program is as it was.
LEMMA ProceedsInBlocks ==
    ASSUME BlocksInv, NEW q \in requests, NEW S,
           requests' = Others(q) \cup S, UNCHANGED <<program, marks>>,
           \A d \in S : BlockRequest(d) /\ Continues(d, q),
           \A d, e \in S : d = e
    PROVE  BlocksInv'
  <1>1. \A k \in requests' : BlockRequest(k)
    BY DEF BlocksInv, HandlersHold, Others
  <1>2. ASSUME NEW k \in Others(q), NEW d \in S PROVE NewTo(k, d) /\ NewTo(d, k)
    <2>1. /\ k \in requests /\ NewTo(k, q) /\ NewTo(q, k) /\ IdsAreFree(k)
      BY DEF BlocksInv, HandlersHold, Others, BlockRequest
    <2>2. NewTo(k, d)
      BY <2>1 DEF NewTo, IdsAreFree, Continues, Creating
    <2>3. NewTo(d, k)
      BY <2>1 DEF NewTo, Continues
    <2>4. QED
      BY <2>2, <2>3
  <1>3. \A k, e \in requests' : k # e => NewTo(k, e)
    BY <1>2 DEF BlocksInv, HandlersHold, Others
  <1>4. QED
    BY <1>1, <1>3, SameProgramHolds

LEMMA DroppedKeepsBlocks ==
    ASSUME BlocksInv, NEW q \in requests, Dropped(q) PROVE BlocksInv'
  <1> DEFINE S == {}
  <1>1. requests' = Others(q) \cup S /\ UNCHANGED <<program, marks>>
    BY DEF Dropped
  <1>2. /\ \A d \in S : BlockRequest(d) /\ Continues(d, q)
        /\ \A d, e \in S : d = e
    OBVIOUS
  <1> HIDE DEF S
  <1>3. QED
    BY <1>1, <1>2, ProceedsInBlocks

LEMMA LoadColumnsKeepsBlocks ==
    ASSUME ScheduleInv, BlocksInv, NEW q \in requests, LoadColumns(q) PROVE BlocksInv'
  <1> DEFINE T == Columns(q.group)
             old == Of(T)
             new == [x \in T |-> MovedColumn(placed[x], q)]
             d == IF q.op = "clear" THEN [q EXCEPT !.old = old, !.at = "checked"]
                  ELSE [q EXCEPT !.old = old, !.new = new, !.at = "loaded"]
  <1>0. q.at = "received"
    BY ZenonT(30) DEF LoadColumns
  <1>1. /\ PlacesTyped /\ RequestTyped(q) /\ BlockRequest(q)
        /\ q.op \in {"move", "clear"} /\ q.at = "received" /\ q.group \in Group
        /\ q.group # NoGroup
    BY <1>0, ScheduleAssumption
    DEF ScheduleInv, RequestsHold, RequestTyped, BlocksInv, HandlersHold, ScheduleAssumption
  <1>2. requests' = Others(q) \cup {d} /\ UNCHANGED <<program, received, marks>>
    BY ZenonT(30) DEF LoadColumns
  <1>3. T \subseteq live /\ \A x \in T : placed[x] \in PlaceShape /\ placed[x].group = q.group
    BY <1>1 DEF Columns, PlacesTyped
  <1>4. T # {} => q.group \in blocks
    BY <1>1, <1>3 DEF BlocksInv, GroupsExist
  <1>5. DOMAIN old = T /\ \A x \in T : old[x] = placed[x]
    BY DEF Of
  <1>6. DOMAIN new = T /\ \A x \in T : new[x].group = q.group /\ new[x].length = placed[x].length
    <2>1. ASSUME NEW x \in T
          PROVE  /\ MovedColumn(placed[x], q).group = placed[x].group
                 /\ MovedColumn(placed[x], q).length = placed[x].length
      BY <1>3, <2>1 DEF MovedColumn, PlaceShape
    <2>2. QED
      BY <1>3, <2>1
  <1>7. /\ d.remaining = q.remaining /\ d.on = q.on
        /\ d.op = q.op /\ d.group = q.group /\ d.from = q.from /\ d.to = q.to /\ d.old = old
        /\ d.new = IF q.op = "clear" THEN q.new ELSE new
        /\ d.at = IF q.op = "clear" THEN "checked" ELSE "loaded"
    BY <1>1 DEF RequestTyped, RequestFields
  <1> HIDE DEF d, old, new
  <1>8. BlockShape(d) /\ IdsAreFree(d)
    BY <1>1, <1>3, <1>5, <1>6, <1>7 DEF BlockRequest, BlockShape, IdsAreFree, Creating, Loading
  <1>9. StaysInBlock(d)
    BY <1>1, <1>3, <1>4, <1>5, <1>7 DEF StaysInBlock, GroupNow
  <1>10. KnowsBlock(d)
    <2>1. SUFFICES ASSUME q.op = "move", q.group \in blocks, Uncrossed(q.group, {"add", "move"}),
                          Uncrossed(q.group, {"load", "move"}), NEW x \in T
                   PROVE  Aligned(d, x)
      BY <1>1, <1>5, <1>7 DEF KnowsBlock
    <2>2. q.from = head[q.group]
      BY <1>1, <2>1 DEF BlockRequest, KnowsBlock
    <2>3. BlockHead(placed[x].day, placed[x].start) = head[q.group]
      BY <2>1 DEF BlocksInv, BlocksHold, ColumnsStartTogether, Torn, Uncrossed
    <2>4. QED
      BY <1>5, <1>7, <2>1, <2>2, <2>3 DEF Aligned, BlockHead
  <1>11. KnowsColumns(d) /\ CountIsCurrent(d)
    BY <1>1, <1>5, <1>7 DEF KnowsColumns, CountIsCurrent
  <1> DEFINE S == {d}
  <1>12. requests' = Others(q) \cup S /\ UNCHANGED <<program, marks>>
    BY <1>2
  <1>13. Continues(d, q)
    BY <1>1, <1>3, <1>5, <1>7 DEF Continues, Creating
  <1>14. /\ \A e \in S : BlockRequest(e) /\ Continues(e, q)
         /\ \A e, f \in S : e = f
    BY <1>8, <1>9, <1>10, <1>11, <1>13 DEF BlockRequest
  <1> HIDE DEF S
  <1>15. QED
    BY <1>12, <1>14, ProceedsInBlocks

LEMMA CheckOverlapKeepsBlocks ==
    ASSUME ScheduleInv, BlocksInv, NEW q \in requests, CheckOverlap(q) PROVE BlocksInv'
  <1> DEFINE d == [q EXCEPT !.at = "checked"]
  <1>1. CASE Dropped(q)
    BY <1>1, DroppedKeepsBlocks
  <1>2. CASE requests' = Others(q) \cup {d} /\ UNCHANGED <<program, received, marks>>
    <2>1. RequestTyped(q) /\ BlockRequest(q)
      BY DEF ScheduleInv, RequestsHold, BlocksInv, HandlersHold
    <2>2. Alike(d, q) /\ d.remaining = q.remaining /\ d.at = "checked"
      BY <2>1 DEF RequestTyped, RequestFields, Alike, CheckOverlap
    <2> HIDE DEF d
    <2>3. CountIsCurrent(d)
      BY <2>2 DEF CheckOverlap, CountIsCurrent, Alike
    <2> BlockRequest(d)
      BY <2>1, <2>2, <2>3, AlikeRequest DEF BlockRequest
    <2> DEFINE S == {d}
    <2>4. requests' = Others(q) \cup S /\ UNCHANGED <<program, marks>>
      BY <1>2 DEF d
    <2>5. /\ \A e \in S : BlockRequest(e) /\ Continues(e, q)
          /\ \A e, f \in S : e = f
      BY <2>2 DEF Alike, Continues
    <2> HIDE DEF S
    <2>6. QED
      BY <2>4, <2>5, ProceedsInBlocks
  <1>3. QED
    BY <1>1, <1>2 DEF CheckOverlap

LEMMA CountRemainingKeepsBlocks ==
    ASSUME ScheduleInv, BlocksInv, NEW q \in requests, CountRemaining(q) PROVE BlocksInv'
  <1> DEFINE rest == IF q.group = NoGroup THEN {} ELSE Columns(q.group) \ {q.on}
             d == [q EXCEPT !.at = "counted", !.remaining = rest]
  <1>1. RequestTyped(q) /\ BlockRequest(q)
    BY DEF ScheduleInv, RequestsHold, BlocksInv, HandlersHold
  <1>2. Alike(d, q) /\ d.remaining = rest /\ d.at = "counted"
    BY <1>1 DEF RequestTyped, RequestFields, Alike, CountRemaining
  <1>3. requests' = Others(q) \cup {d} /\ UNCHANGED <<program, received, marks>>
    BY DEF CountRemaining
  <1> HIDE DEF d
  <1>4. rest \subseteq live
    BY DEF Columns
  <1>5. CountIsCurrent(d)
    BY <1>2 DEF CountIsCurrent, Alike
  <1>6. BlockRequest(d)
    BY <1>1, <1>2, <1>5, AlikeRequest DEF BlockRequest
  <1> DEFINE S == {d}
  <1>7. requests' = Others(q) \cup S /\ UNCHANGED <<program, marks>>
    BY <1>3 DEF d
  <1>8. /\ \A e \in S : BlockRequest(e) /\ Continues(e, q)
        /\ \A e, f \in S : e = f
    BY <1>2, <1>4, <1>6 DEF Alike, Continues
  <1> HIDE DEF S
  <1>9. QED
    BY <1>7, <1>8, ProceedsInBlocks
-------------------------------------------------------------------------------
(* A commit places sessions: blocks. *)

LEMMA WrittenFields ==
    /\ \A now, old, new \in PlaceShape :
          LET c == Written(now, old, new)
          IN  /\ c.day = IF new.day # old.day THEN new.day ELSE now.day
              /\ c.start = IF new.start # old.start THEN new.start ELSE now.start
              /\ c.group = IF new.group # old.group THEN new.group ELSE now.group
    /\ \A now, old, new \in HeadShape :
          LET c == Written(now, old, new)
          IN  /\ c.day = IF new.day # old.day THEN new.day ELSE now.day
              /\ c.start = IF new.start # old.start THEN new.start ELSE now.start
    /\ \A old, new \in PlaceShape : Written(old, old, new) = new
    /\ \A old, new \in HeadShape : Written(old, old, new) = new
  <1>1. \A now, old, new \in PlaceShape :
          LET c == Written(now, old, new)
          IN  /\ c.day = IF new.day # old.day THEN new.day ELSE now.day
              /\ c.start = IF new.start # old.start THEN new.start ELSE now.start
              /\ c.group = IF new.group # old.group THEN new.group ELSE now.group
    BY DEF Written, PlaceShape
  <1>2. \A now, old, new \in HeadShape :
          LET c == Written(now, old, new)
          IN  /\ c.day = IF new.day # old.day THEN new.day ELSE now.day
              /\ c.start = IF new.start # old.start THEN new.start ELSE now.start
    BY DEF Written, HeadShape
  <1>3. \A old, new \in PlaceShape : Written(old, old, new) = new
    BY DEF Written, PlaceShape
  <1>4. \A old, new \in HeadShape : Written(old, old, new) = new
    BY DEF Written, HeadShape
  <1>5. QED
    BY <1>1, <1>2, <1>3, <1>4

\* What is not changed stays.
LEMMA WrittenSame == ASSUME NEW now \in HeadShape, NEW old PROVE Written(now, old, old) = now
  BY DEF Written, HeadShape

\* What a commit does to the columns of blocks and to their heads.
LEMMA CommitInBlocks ==
    ASSUME ScheduleInv, BlocksInv, NEW q \in requests, CommitPlacement(q)
    PROVE  /\ live' = live \cup Touched(q)
           /\ \A x \in live : placed'[x].group = placed[x].group
           /\ \A x \in Session \ Touched(q) : placed'[x] = placed[x]
           /\ q.op \in Creating \cup {"edit", "move"}
           /\ q.op \in Creating =>
                 Touched(q) = DOMAIN q.new /\ \A x \in DOMAIN q.new : x \notin live /\ placed'[x] = q.new[x]
           /\ q.op \in {"edit", "move"} =>
                 /\ DOMAIN q.new = DOMAIN q.old
                 /\ Touched(q) = Writes(q) /\ Writes(q) \subseteq DOMAIN q.old \cap live
                 /\ \A x \in DOMAIN q.old \ Writes(q) : q.new[x] = q.old[x]
                 /\ \A x \in Touched(q) :
                       /\ placed'[x] = Written(placed[x], q.old[x], q.new[x])
                       /\ placed[x] \in PlaceShape /\ q.old[x] \in PlaceShape /\ q.new[x] \in PlaceShape
           /\ blocks' = IF q.op = "block" THEN blocks \cup {q.group} ELSE blocks
           /\ q.op = "block" => q.group \notin blocks
           /\ \A g \in Group : g # q.group \/ q.op \notin {"block", "move"} => head'[g] = head[g]
           /\ q.op \in {"block", "move"} =>
                 head'[q.group] = Written(head[q.group], q.from, q.to)
           /\ q.op \in {"add", "move"} => q.group \in blocks
  <1>1. PlacesTyped /\ RequestTyped(q) /\ BlockRequest(q)
    BY DEF ScheduleInv, RequestsHold, BlocksInv, HandlersHold
  <1>2. BlockShape(q) /\ IdsAreFree(q)
    BY <1>1 DEF BlockRequest
  <1>3. /\ live' = live \cup Touched(q)
        /\ \A x \in Session \ Touched(q) : placed'[x] = placed[x]
        /\ Touched(q) \subseteq DOMAIN q.new
    BY CommitPlaces
  <1>4. q.op \in Creating \cup {"edit", "move"}
    BY <1>1 DEF RequestTyped, Placing, Creating, CommitPlacement
  <1>5. q.op \notin {"delete", "clear"} /\ ~Stale(q)
    BY DEF CommitPlacement
  <1>6. /\ Writes(q) \subseteq DOMAIN q.old \cap live
        /\ \A x \in DOMAIN q.old \ Writes(q) : x \in DOMAIN q.new => q.new[x] = q.old[x]
        /\ q.op \in {"add", "move"} => q.group \in blocks
    <2>1. Unlinked(q) = {}
      BY <1>1, <1>5 DEF RequestTyped, Unlinked
    <2>2. QED
      BY <1>5, <2>1 DEF Stale, Writes
  <1>7. /\ placed' = [x \in Session |->
               IF x \in Inserts(q) THEN q.new[x]
               ELSE IF x \in Writes(q) THEN Written(placed[x], q.old[x], q.new[x]) ELSE placed[x]]
        /\ IF q.op \in {"block", "move"}
           THEN blocks' = blocks \cup {q.group} /\ head' = [head EXCEPT ![q.group] = Written(@, q.from, q.to)]
           ELSE UNCHANGED <<blocks, head>>
    BY DEF CommitPlacement
  <1>8. q.op \in Creating =>
           Touched(q) = DOMAIN q.new /\ \A x \in DOMAIN q.new : x \notin live /\ placed'[x] = q.new[x]
    BY <1>1, <1>2, <1>6, <1>7 DEF BlockShape, IdsAreFree, RequestTyped, Inserts, Touched
  <1>9. q.op \in {"edit", "move"} =>
           /\ DOMAIN q.new = DOMAIN q.old
           /\ Touched(q) = Writes(q) /\ Writes(q) \subseteq DOMAIN q.old \cap live
           /\ \A x \in DOMAIN q.old \ Writes(q) : q.new[x] = q.old[x]
           /\ \A x \in Touched(q) :
                 /\ placed'[x] = Written(placed[x], q.old[x], q.new[x])
                 /\ placed[x] \in PlaceShape /\ q.old[x] \in PlaceShape /\ q.new[x] \in PlaceShape
    <2>1. SUFFICES ASSUME q.op \in {"edit", "move"}
                   PROVE  /\ DOMAIN q.new = DOMAIN q.old
                          /\ Touched(q) = Writes(q) /\ Writes(q) \subseteq DOMAIN q.old \cap live
                          /\ \A x \in DOMAIN q.old \ Writes(q) : q.new[x] = q.old[x]
                          /\ \A x \in Touched(q) :
                                /\ placed'[x] = Written(placed[x], q.old[x], q.new[x])
                                /\ placed[x] \in PlaceShape /\ q.old[x] \in PlaceShape
                                /\ q.new[x] \in PlaceShape
      OBVIOUS
    <2>2. DOMAIN q.new = DOMAIN q.old
      BY <1>2, <2>1 DEF BlockShape
    <2>3. Inserts(q) = {} /\ Touched(q) = Writes(q)
      BY <2>2 DEF Inserts, Touched
    <2>4. \A x \in Touched(q) :
             placed[x] \in PlaceShape /\ q.old[x] \in PlaceShape /\ q.new[x] \in PlaceShape
      BY <1>1, <1>6, <2>2, <2>3 DEF RequestTyped, PlacesTyped
    <2>5. \A x \in Touched(q) : placed'[x] = Written(placed[x], q.old[x], q.new[x])
      BY <1>1, <1>6, <1>7, <2>2, <2>3 DEF RequestTyped
    <2>6. QED
      BY <1>6, <2>2, <2>3, <2>4, <2>5
  <1>10. ASSUME NEW x \in live PROVE placed'[x].group = placed[x].group
    <2>1. x \in Session
      BY <1>1 DEF PlacesTyped
    <2>2. CASE x \in Touched(q)
      <3>1. q.op \in {"edit", "move"} /\ x \in DOMAIN q.old
        BY <1>4, <1>8, <1>9, <1>10, <2>2
      <3>2. q.new[x].group = q.old[x].group
        BY <1>2, <1>3, <2>2, <3>1 DEF BlockShape, Loading
      <3>3. QED
        BY <1>9, <2>2, <3>1, <3>2, WrittenFields
    <2>3. CASE x \notin Touched(q)
      BY <1>3, <2>1, <2>3
    <2>4. QED
      BY <2>2, <2>3
  <1>11. blocks' = IF q.op = "block" THEN blocks \cup {q.group} ELSE blocks
    BY <1>6, <1>7
  <1>12. /\ \A g \in Group : g # q.group \/ q.op \notin {"block", "move"} => head'[g] = head[g]
         /\ q.op \in {"block", "move"} => head'[q.group] = Written(head[q.group], q.from, q.to)
    BY <1>1, <1>7 DEF PlacesTyped, RequestTyped
  <1>13. q.op = "block" => q.group \notin blocks
    BY <1>2 DEF IdsAreFree
  <1>14. QED
    BY <1>3, <1>4, <1>6, <1>8, <1>9, <1>10, <1>11, <1>12, <1>13

\* Two requests for one block at the same time leave a mark.
Crosses(q, e) ==
    (/\ e.group = q.group /\ q.group # NoGroup
     /\ e.op = "delete" => e.at = "counted") => <<q.group, {q.op, Doing(e)}>> \in Crossing(q)

LEMMA OthersCross ==
    ASSUME NEW q, NEW k \in Others(q) PROVE Crosses(q, k)
  BY DEF Crosses, Crossing

LEMMA PlacementKeepsOther ==
    ASSUME ScheduleInv, BlocksInv, NEW q \in requests, CommitPlacement(q),
           NEW e, BlockRequest(e), NewTo(q, e), NewTo(e, q), Crosses(q, e),
           e.at = "received" => DOMAIN e.old = {}
    PROVE  BlockRequest(e)'
  <1>1. PlacesTyped /\ BlockRequest(q) /\ NoGroup \notin Group /\ blocks \subseteq Group
    BY ScheduleAssumption DEF ScheduleInv, BlocksInv, HandlersHold, PlacesTyped, ScheduleAssumption
  <1>2. /\ live' = live \cup Touched(q) /\ Touched(q) \subseteq DOMAIN q.new
        /\ \A x \in live : placed'[x].group = placed[x].group
        /\ \A x \in Session \ Touched(q) : placed'[x] = placed[x]
        /\ q.op \in Creating \cup {"edit", "move"}
        /\ q.op \in Creating => \A x \in DOMAIN q.new : x \notin live /\ placed'[x] = q.new[x]
        /\ q.op \in {"edit", "move"} => DOMAIN q.new = DOMAIN q.old /\ Touched(q) \subseteq DOMAIN q.old \cap live
        /\ blocks' = IF q.op = "block" THEN blocks \cup {q.group} ELSE blocks
        /\ \A g \in Group : g # q.group \/ q.op \notin {"block", "move"} => head'[g] = head[g]
    BY CommitInBlocks, CommitPlaces
  <1>3. crossed' = crossed \cup Crossing(q)
    BY DEF CommitPlacement
  <1>4. \A g, ops : Uncrossed(g, ops)' => Uncrossed(g, ops)
    BY <1>3 DEF Uncrossed
  <1>5. e.group \in blocks' <=> e.group \in blocks
    BY <1>2 DEF NewTo
  <1>6. (\A x \in DOMAIN e.old : x \in live' => x \in live) /\ (e.op = "delete" /\ e.on \in live' => e.on \in live)
    BY <1>2 DEF NewTo
  <1>7. ASSUME e.group \in blocks, e.group = q.group, e.op = "delete" => e.at = "counted"
        PROVE  ~Uncrossed(e.group, {q.op, Doing(e)})'
    BY <1>1, <1>3, <1>7 DEF Crosses, Uncrossed
  <1>8. BlockShape(e)'
    BY DEF BlockRequest, BlockShape
  <1>9. IdsAreFree(e)'
    <2>1. e.op \in Creating => DOMAIN e.new \cap DOMAIN q.new = {}
      <3>1. q.op \notin Creating => DOMAIN q.new = DOMAIN q.old
        BY <1>2
      <3>2. QED
        BY <3>1 DEF NewTo
    <2>2. QED
      BY <1>2, <1>5, <2>1 DEF BlockRequest, IdsAreFree
  <1>10. StaysInBlock(e)'
    BY <1>2, <1>5, <1>6 DEF BlockRequest, StaysInBlock, GroupNow
  <1>11. KnowsBlock(e)'
    <2>1. e.op = "block" => e.from = head'[e.group]
      BY <1>2 DEF BlockRequest, BlockShape, KnowsBlock, NewTo
    <2>2. ASSUME e.group \in blocks, Uncrossed(e.group, {"add", "move"})', e.op = "add"
          PROVE  e.to = head'[e.group]
      <3>1. e.to = head[e.group]
        BY <1>4, <2>2 DEF BlockRequest, KnowsBlock
      <3>2. ~(e.group = q.group /\ q.op = "move")
        <4>1. {"move", "add"} = {"add", "move"}
          OBVIOUS
        <4>2. QED
          BY <1>7, <2>2, <4>1 DEF Doing
      <3>3. ~(e.group = q.group /\ q.op = "block")
        BY DEF NewTo
      <3>4. QED
        BY <1>1, <1>2, <2>2, <3>1, <3>2, <3>3
    <2>3. ASSUME e.group \in blocks, Uncrossed(e.group, {"add", "move"})', e.op = "move",
                 Uncrossed(e.group, {"load", "move"})', e.at # "received"
          PROVE  Columns(e.group)' \subseteq DOMAIN e.old /\ \A x \in DOMAIN e.old : Aligned(e, x)
      <3>1. Columns(e.group) \subseteq DOMAIN e.old /\ \A x \in DOMAIN e.old : Aligned(e, x)
        BY <1>4, <2>3 DEF BlockRequest, KnowsBlock
      <3>2. ASSUME NEW x \in Columns(e.group)' PROVE x \in live
        <4>1. SUFFICES ASSUME x \notin live PROVE FALSE
          OBVIOUS
        <4>2. q.op \in Creating /\ x \in DOMAIN q.new /\ q.new[x].group = e.group
          BY <1>2, <3>2, <4>1 DEF Columns
        <4>3. q.group = e.group /\ e.group # NoGroup
          BY <1>1, <2>3, <4>2 DEF BlockRequest, BlockShape
        <4>4. q.op \in {"block", "add"}
          BY <1>1, <4>2, <4>3 DEF BlockRequest, BlockShape, Creating
        <4>5. q.op # "block"
          BY <4>3 DEF NewTo
        <4>6. QED
          BY <1>7, <2>3, <4>3, <4>4, <4>5 DEF Doing
      <3>3. QED
        BY <1>2, <3>1, <3>2 DEF Columns
    <2>4. ASSUME e.group \in blocks, Uncrossed(e.group, {"add", "move"})', e.op = "move",
                 Uncrossed(e.group, {"load", "move"})', e.at = "received"
          PROVE  e.from = head'[e.group]
      <3>1. e.from = head[e.group]
        BY <1>4, <2>4 DEF BlockRequest, KnowsBlock
      <3>2. ~(e.group = q.group /\ q.op = "move")
        <4>1. {"move", "load"} = {"load", "move"}
          OBVIOUS
        <4>2. QED
          BY <1>7, <2>4, <4>1 DEF Doing
      <3>3. ~(e.group = q.group /\ q.op = "block")
        BY DEF NewTo
      <3>4. QED
        BY <1>1, <1>2, <2>4, <3>1, <3>2, <3>3
    <2>5. QED
      BY <1>5, <2>1, <2>2, <2>3, <2>4 DEF KnowsBlock, Aligned
  <1>12. KnowsColumns(e)'
    <2>1. SUFFICES ASSUME e.group \in blocks', e.op \in {"edit", "move"},
                          Uncrossed(e.group, {e.op})', Uncrossed(e.group, {"edit", "move"})',
                          NEW x \in DOMAIN e.old \cap live'
                   PROVE  placed'[x] = e.old[x]
      BY DEF KnowsColumns
    <2>2. x \in live /\ x \in Session /\ e.group \in blocks
      BY <1>1, <1>5, <1>6, <2>1 DEF PlacesTyped
    <2>3. placed[x] = e.old[x]
      BY <1>4, <2>1, <2>2 DEF BlockRequest, KnowsColumns
    <2>4. ASSUME x \in Touched(q) PROVE FALSE
      <3>1. q.op \in {"edit", "move"} /\ x \in DOMAIN q.old
        BY <1>2, <2>2, <2>4
      <3>2. placed[x].group = GroupNow(q) /\ placed[x].group = GroupNow(e)
        BY <1>1, <2>1, <2>2, <3>1 DEF BlockRequest, StaysInBlock, Loading
      <3>3. q.group = e.group
        BY <1>1, <2>2, <3>2 DEF GroupNow
      <3>4. {q.op, e.op} = {e.op} \/ {q.op, e.op} = {"edit", "move"}
        BY <2>1, <3>1
      <3>5. e.at # "received" /\ Doing(e) = e.op
        BY <2>1, <3>1 DEF Doing
      <3>6. QED
        BY <1>7, <2>1, <2>2, <3>3, <3>4, <3>5
    <2>5. QED
      BY <1>2, <2>2, <2>3, <2>4
  <1>13. CountIsCurrent(e)'
    BY <1>2, <1>4, <1>5 DEF BlockRequest, CountIsCurrent, Columns
  <1>14. QED
    BY <1>8, <1>9, <1>10, <1>11, <1>12, <1>13 DEF BlockRequest

LEMMA PlacementKeepsHandlers ==
    ASSUME ScheduleInv, BlocksInv, NEW q \in requests, CommitPlacement(q)
    PROVE  HandlersHold'
  <1>1. ASSUME NEW k \in Others(q)
        PROVE  LET e == [k EXCEPT !.overtaken = @ \/ Meets(q, k)]
               IN  Alike(e, k) /\ e.at = k.at /\ e.remaining = k.remaining
    <2>1. RequestTyped(k)
      BY <1>1 DEF ScheduleInv, RequestsHold, Others
    <2>2. QED
      BY <2>1 DEF RequestTyped, RequestFields, Alike
  <1>2. ASSUME NEW e \in requests'
        PROVE  \E k \in Others(q) :
                  /\ e = [k EXCEPT !.overtaken = @ \/ Meets(q, k)]
                  /\ Alike(e, k) /\ e.at = k.at /\ e.remaining = k.remaining
    BY <1>1, <1>2 DEF CommitPlacement, Overtaken
  <1>3. \A k \in Others(q) : k \in requests /\ BlockRequest(k) /\ NewTo(q, k) /\ NewTo(k, q)
    BY DEF BlocksInv, HandlersHold, Others
  <1>4. \A k, j \in Others(q) : k # j => NewTo(k, j)
    BY DEF BlocksInv, HandlersHold, Others
  <1>5. ASSUME NEW e \in requests' PROVE BlockRequest(e)'
    <2>1. PICK k \in Others(q) : Alike(e, k) /\ e.at = k.at /\ e.remaining = k.remaining
      BY <1>2, <1>5
    <2>2. BlockRequest(e)
      BY <1>3, <2>1, AlikeRequest
    <2>3. NewTo(q, e) /\ NewTo(e, q)
      BY <1>3, <2>1 DEF NewTo, Alike
    <2>4. Crosses(q, e)
      BY <2>1, OthersCross DEF Crosses, Alike, Doing
    <2>5. e.at = "received" => DOMAIN e.old = {}
      BY <2>1 DEF ScheduleInv, RequestsHold, RequestTyped, Others, Alike
    <2>6. QED
      BY <2>2, <2>3, <2>4, <2>5, PlacementKeepsOther
  <1>6. ASSUME NEW d \in requests', NEW e \in requests', d # e PROVE NewTo(d, e)'
    <2>1. PICK k \in Others(q) : d = [k EXCEPT !.overtaken = @ \/ Meets(q, k)] /\ Alike(d, k)
      BY <1>2, <1>6
    <2>2. PICK j \in Others(q) : /\ e = [j EXCEPT !.overtaken = @ \/ Meets(q, j)]
                                 /\ Alike(e, j) /\ e.remaining = j.remaining
      BY <1>2, <1>6
    <2>3. k # j
      BY <1>6, <2>1, <2>2
    <2>4. NewTo(k, j)
      BY <1>4, <2>3
    <2>5. NewTo(d, e)
      BY <2>1, <2>2, <2>4 DEF NewTo, Alike
    <2>6. QED
      BY <2>5 DEF NewTo
  <1>7. QED
    BY <1>5, <1>6 DEF HandlersHold

\* The columns of a block after a commit: those it had, and those that were created in it.
LEMMA ColumnAfterCommit ==
    ASSUME ScheduleInv, BlocksInv, NEW q \in requests, CommitPlacement(q),
           NEW g \in blocks', NEW x \in Columns(g)'
    PROVE  \/ x \notin Touched(q) /\ x \in Columns(g) /\ g \in blocks /\ placed'[x] = placed[x]
           \/ /\ q.op \in {"edit", "move"} /\ g = q.group /\ g \in blocks
              /\ x \in Touched(q) /\ x \in Columns(g)
           \/ /\ q.op \in {"block", "add"} /\ g = q.group
              /\ x \in DOMAIN q.new /\ placed'[x] = q.new[x]
  <1>1. PlacesTyped /\ BlockRequest(q) /\ NoGroup \notin Group /\ g \in Group
    BY ScheduleAssumption, CommitPlaces
    DEF ScheduleInv, BlocksInv, HandlersHold, PlacesTyped, ScheduleAssumption
  <1>2. /\ live' = live \cup Touched(q) /\ Touched(q) \subseteq DOMAIN q.new
        /\ \A y \in live : placed'[y].group = placed[y].group
        /\ \A y \in Session \ Touched(q) : placed'[y] = placed[y]
        /\ q.op \in Creating \cup {"edit", "move"}
        /\ q.op \in Creating => \A y \in DOMAIN q.new : y \notin live /\ placed'[y] = q.new[y]
        /\ q.op \in {"edit", "move"} => DOMAIN q.new = DOMAIN q.old /\ Touched(q) \subseteq DOMAIN q.old \cap live
    BY CommitInBlocks, CommitPlaces
  <1>3. x \in live' /\ placed'[x].group = g
    BY DEF Columns
  <1>4. CASE x \in live
    <2>1. placed[x].group = g /\ g \in blocks /\ x \in Session
      BY <1>1, <1>2, <1>3, <1>4 DEF BlocksInv, GroupsExist, PlacesTyped
    <2>2. CASE x \notin Touched(q)
      BY <1>2, <1>4, <2>1, <2>2 DEF Columns
    <2>3. CASE x \in Touched(q)
      <3>1. q.op \in {"edit", "move"} /\ x \in DOMAIN q.old
        BY <1>2, <1>4, <2>3
      <3>2. placed[x].group = GroupNow(q)
        BY <1>1, <1>4, <3>1 DEF BlockRequest, StaysInBlock, Loading
      <3>3. QED
        BY <1>1, <1>4, <2>1, <2>3, <3>1, <3>2 DEF GroupNow, Columns
    <2>4. QED
      BY <2>2, <2>3
  <1>5. CASE x \notin live
    <2>1. q.op \in Creating /\ x \in DOMAIN q.new /\ placed'[x] = q.new[x]
      BY <1>2, <1>3, <1>5
    <2>2. q.group = g
      BY <1>1, <1>3, <2>1 DEF BlockRequest, BlockShape
    <2>3. q.op \in {"block", "add"}
      BY <1>1, <2>1, <2>2 DEF BlockRequest, BlockShape, Creating
    <2>4. QED
      BY <2>1, <2>2, <2>3
  <1>6. QED
    BY <1>4, <1>5

LEMMA PlacementKeepsGroups ==
    ASSUME ScheduleInv, BlocksInv, NEW q \in requests, CommitPlacement(q)
    PROVE  GroupsExist'
  <1>1. BlockShape(q)
    BY DEF BlocksInv, HandlersHold, BlockRequest
  <1>2. SUFFICES ASSUME NEW x \in live' PROVE placed'[x].group \in blocks' \cup {NoGroup}
    BY DEF GroupsExist
  <1>3. CASE x \in live
    BY <1>3, CommitInBlocks DEF BlocksInv, GroupsExist
  <1>4. CASE x \notin live
    <2>1. x \in DOMAIN q.new /\ q.op \in Creating /\ placed'[x] = q.new[x]
      BY <1>2, <1>4, CommitInBlocks
    <2>2. placed'[x].group = q.group
      BY <1>1, <2>1 DEF BlockShape
    <2>3. q.group \in blocks' \cup {NoGroup}
      BY <1>1, <2>1, CommitInBlocks DEF BlockShape, Creating
    <2>4. QED
      BY <2>2, <2>3
  <1>5. QED
    BY <1>3, <1>4

LEMMA PartsOfColumns ==
    ASSUME NEW S \in SUBSET Session, NEW T \in SUBSET S
    PROVE  /\ Cardinality(S) \in Nat /\ Cardinality(T) \in Nat
           /\ Cardinality(T) >= 2 => Cardinality(S) >= 2
  <1>1. IsFiniteSet(S) /\ IsFiniteSet(T)
    BY ScheduleAssumption, FS_Subset DEF ScheduleAssumption
  <1>2. Cardinality(S) \in Nat /\ Cardinality(T) \in Nat /\ Cardinality(T) <= Cardinality(S)
    BY <1>1, FS_Subset, FS_CardinalityType
  <1>3. QED
    BY <1>2

LEMMA PlacementKeepsSize ==
    ASSUME ScheduleInv, BlocksInv, NEW q \in requests, CommitPlacement(q)
    PROVE  BlocksHaveColumns'
  <1>1. PlacesTyped' /\ PlacesTyped /\ BlockRequest(q) /\ RequestTyped(q)
    BY CommitPlaces DEF ScheduleInv, RequestsHold, BlocksInv, HandlersHold
  <1>2. crossed \subseteq crossed' /\ leftover' = leftover
    BY DEF CommitPlacement
  <1>3. SUFFICES ASSUME NEW g \in blocks' \ leftover', <<g, {"delete"}>> \notin crossed'
                 PROVE  Cardinality(Columns(g)') >= 2
    BY DEF BlocksHaveColumns
  <1>4. Columns(g)' \in SUBSET Session
    BY <1>1 DEF PlacesTyped, Columns
  <1>5. ASSUME NEW S \in SUBSET (Columns(g)'), Cardinality(S) >= 2
        PROVE  Cardinality(Columns(g)') >= 2
    BY <1>4, <1>5, PartsOfColumns
  <1>6. CASE g \in blocks
    <2>1. Cardinality(Columns(g)) >= 2
      BY <1>2, <1>3, <1>6 DEF BlocksInv, BlocksHold, BlocksHaveColumns
    <2>2. Columns(g) \subseteq Columns(g)'
      BY CommitInBlocks DEF Columns
    <2>3. QED
      BY <1>5, <2>1, <2>2
  <1>7. CASE g \notin blocks
    <2>1. q.op = "block" /\ g = q.group
      BY <1>3, <1>7, CommitInBlocks
    <2>2. Cardinality(DOMAIN q.new) >= 2
      BY <1>1, <2>1 DEF BlockRequest, BlockShape
    <2>3. DOMAIN q.new \subseteq Columns(g)'
      <3>1. \A x \in DOMAIN q.new : x \in live' /\ placed'[x] = q.new[x] /\ q.new[x].group = g
        BY <1>1, <2>1, CommitInBlocks DEF Creating, BlockRequest, BlockShape
      <3>2. QED
        BY <3>1 DEF Columns
    <2>4. QED
      BY <1>5, <2>2, <2>3
  <1>8. QED
    BY <1>6, <1>7

LEMMA PlacementKeepsStarts ==
    ASSUME ScheduleInv, BlocksInv, NEW q \in requests, CommitPlacement(q)
    PROVE  ColumnsStartTogether'
  <1>1. /\ PlacesTyped /\ BlockRequest(q) /\ RequestTyped(q) /\ MoveComputed(q)
        /\ blocks' \subseteq Group
    BY CommitPlaces DEF ScheduleInv, RequestsHold, BlocksInv, HandlersHold, PlacesTyped
  <1>2. crossed \subseteq crossed'
    BY DEF CommitPlacement
  <1>3. SUFFICES ASSUME NEW g \in blocks', Uncrossed(g, {"add", "move"}),
                        Uncrossed(g, {"load", "move"}), NEW x \in Columns(g)'
                 PROVE  BlockHead(placed'[x].day, placed'[x].start) = head'[g]
    BY <1>2 DEF ColumnsStartTogether, Torn, Uncrossed
  <1>4. /\ g # q.group \/ q.op \notin {"block", "move"} => head'[g] = head[g]
        /\ q.op \in {"block", "move"} => head'[q.group] = Written(head[q.group], q.from, q.to)
        /\ q.op \in {"edit", "move"} =>
              /\ DOMAIN q.new = DOMAIN q.old /\ Touched(q) \subseteq DOMAIN q.old
              /\ \A y \in DOMAIN q.old \ Touched(q) : q.new[y] = q.old[y]
              /\ \A y \in Touched(q) :
                    /\ placed'[y] = Written(placed[y], q.old[y], q.new[y])
                    /\ placed[y] \in PlaceShape /\ q.old[y] \in PlaceShape /\ q.new[y] \in PlaceShape
        /\ q.op = "block" => q.group \notin blocks
    BY <1>1, <1>3, CommitInBlocks
  <1>5. ASSUME g \in blocks, x \in Columns(g)
        PROVE  BlockHead(placed[x].day, placed[x].start) = head[g]
    BY <1>3, <1>5 DEF BlocksInv, BlocksHold, ColumnsStartTogether, Torn, Uncrossed
  <1>6. CASE x \notin Touched(q) /\ x \in Columns(g) /\ g \in blocks /\ placed'[x] = placed[x]
    <2>1. ASSUME g = q.group, q.op = "move" PROVE head'[g] = head[g]
      <3>1. q.at # "received"
        BY DEF CommitPlacement, Ready
      <3>2. x \in DOMAIN q.old /\ Aligned(q, x)
        BY <1>1, <1>3, <1>6, <2>1, <3>1 DEF BlockRequest, KnowsBlock
      <3>3. q.new[x] = q.old[x] /\ q.new[x].day = q.to.day /\ q.new[x].start = q.to.start
        BY <1>1, <1>4, <1>6, <2>1, <3>2 DEF MoveComputed
      <3>4. q.from \in HeadShape /\ q.to \in HeadShape /\ head[g] \in HeadShape
        BY <1>1, <1>6 DEF RequestTyped, PlacesTyped
      <3>5. q.from = q.to
        <4>1. q.old[x].day = q.from.day /\ q.old[x].start = q.from.start
          BY <3>2 DEF Aligned
        <4>2. q.from.day = q.to.day /\ q.from.start = q.to.start
          BY <3>3, <4>1
        <4>3. QED
          BY <3>4, <4>2 DEF HeadShape
      <3>6. QED
        BY <1>4, <2>1, <3>4, <3>5, WrittenSame
    <2>2. ~(g = q.group /\ q.op = "block")
      BY <1>4, <1>6
    <2>3. QED
      BY <1>4, <1>5, <1>6, <2>1, <2>2
  <1>7. CASE /\ q.op \in {"edit", "move"} /\ g = q.group /\ g \in blocks
             /\ x \in Touched(q) /\ x \in Columns(g)
    <2>1. /\ placed'[x] = Written(placed[x], q.old[x], q.new[x])
          /\ placed[x] \in PlaceShape /\ q.old[x] \in PlaceShape /\ q.new[x] \in PlaceShape
      BY <1>4, <1>7
    <2>2. CASE q.op = "edit"
      <3>1. g # NoGroup
        BY <1>1, <1>3, ScheduleAssumption DEF ScheduleAssumption
      <3>2. q.new[x].day = q.old[x].day /\ q.new[x].start = q.old[x].start
        <4>1. x \in DOMAIN q.new /\ q.group # NoGroup
          BY <1>4, <1>7, <2>2, <3>1
        <4>2. QED
          BY <1>1, <2>2, <4>1 DEF BlockRequest, BlockShape
      <3>3. placed'[x].day = placed[x].day /\ placed'[x].start = placed[x].start
        BY <2>1, <3>2, WrittenFields
      <3>4. QED
        BY <1>4, <1>5, <1>7, <2>2, <3>3
    <2>3. CASE q.op = "move"
      <3>0. q.at # "received"
        BY DEF CommitPlacement, Ready
      <3>1. /\ q.new[x].day = q.to.day /\ q.new[x].start = q.to.start
            /\ q.old[x].day = q.from.day /\ q.old[x].start = q.from.start
        BY <1>1, <1>3, <1>4, <1>7, <2>3, <3>0 DEF MoveComputed, BlockRequest, KnowsBlock, Aligned
      <3>2. head[g] \in HeadShape /\ q.from \in HeadShape /\ q.to \in HeadShape
        BY <1>1, <1>3 DEF PlacesTyped, RequestTyped
      <3>3. placed[x].day = head[g].day /\ placed[x].start = head[g].start
        BY <1>5, <1>7 DEF BlockHead
      <3>4. head'[g].day = placed'[x].day /\ head'[g].start = placed'[x].start
        <4>1. head'[g] = Written(head[g], q.from, q.to)
          BY <1>4, <1>7, <2>3
        <4>2. /\ head'[g].day = IF q.to.day # q.from.day THEN q.to.day ELSE head[g].day
              /\ head'[g].start = IF q.to.start # q.from.start THEN q.to.start ELSE head[g].start
          BY <3>2, <4>1, WrittenFields
        <4>3. /\ placed'[x].day = IF q.to.day # q.from.day THEN q.to.day ELSE placed[x].day
              /\ placed'[x].start = IF q.to.start # q.from.start THEN q.to.start ELSE placed[x].start
          BY <2>1, <3>1, WrittenFields
        <4>4. QED
          BY <3>3, <4>2, <4>3
      <3>5. head'[g] \in HeadShape
        BY <1>4, <1>7, <2>3, <3>2, WrittenTyped
      <3>6. QED
        BY <3>4, <3>5 DEF BlockHead, HeadShape
    <2>4. QED
      BY <1>7, <2>2, <2>3
  <1>8. CASE /\ q.op \in {"block", "add"} /\ g = q.group
             /\ x \in DOMAIN q.new /\ placed'[x] = q.new[x]
    <2>1. BlockHead(placed'[x].day, placed'[x].start) = q.to
      BY <1>1, <1>8 DEF BlockRequest, BlockShape
    <2>2. CASE q.op = "add"
      <3>1. g \in blocks
        BY <1>8, <2>2, CommitInBlocks
      <3>2. QED
        BY <1>1, <1>3, <1>4, <1>8, <2>1, <2>2, <3>1 DEF BlockRequest, KnowsBlock
    <2>3. CASE q.op = "block"
      <3>1. q.from = head[g] /\ q.from \in HeadShape /\ q.to \in HeadShape
        BY <1>1, <1>8, <2>3 DEF BlockRequest, KnowsBlock, RequestTyped
      <3>2. QED
        BY <1>4, <1>8, <2>1, <2>3, <3>1, WrittenFields
    <2>4. QED
      BY <1>8, <2>2, <2>3
  <1>9. QED
    BY <1>6, <1>7, <1>8, ColumnAfterCommit

LEMMA PlacementKeepsLengths ==
    ASSUME ScheduleInv, BlocksInv, NEW q \in requests, CommitPlacement(q)
    PROVE  LengthsKept'
  <1>1. /\ PlacesTyped /\ BlockRequest(q) /\ RequestTyped(q) /\ MoveComputed(q)
        /\ blocks' \subseteq Group
    BY CommitPlaces DEF ScheduleInv, RequestsHold, BlocksInv, HandlersHold, PlacesTyped
  <1>2. /\ crossed \subseteq crossed'
        /\ clamped' = IF q.op = "edit" THEN clamped \ Touched(q) ELSE clamped \cup Cut(q)
    BY DEF CommitPlacement
  <1>3. SUFFICES ASSUME NEW g \in blocks',
                        Uncrossed(g, {"move"}), Uncrossed(g, {"edit"}),
                        Uncrossed(g, {"edit", "move"}), Uncrossed(g, {"add", "move"}),
                        Uncrossed(g, {"load", "move"}),
                        NEW x \in Columns(g)', x \notin clamped'
                 PROVE  Length(placed'[x]) = placed'[x].length
    BY <1>2 DEF LengthsKept, Torn, Uncrossed
  <1>4. ASSUME g \in blocks, x \in Columns(g), x \notin clamped
        PROVE  Length(placed[x]) = placed[x].length
    BY <1>3, <1>4 DEF BlocksInv, BlocksHold, LengthsKept, Torn, Uncrossed
  <1>5. CASE x \notin Touched(q) /\ x \in Columns(g) /\ g \in blocks /\ placed'[x] = placed[x]
    BY <1>2, <1>3, <1>4, <1>5
  <1>6. CASE /\ q.op \in {"edit", "move"} /\ g = q.group /\ g \in blocks
             /\ x \in Touched(q) /\ x \in Columns(g)
    <2>1. /\ placed'[x] = Written(placed[x], q.old[x], q.new[x])
          /\ placed[x] \in PlaceShape /\ q.old[x] \in PlaceShape /\ q.new[x] \in PlaceShape
          /\ x \in DOMAIN q.old /\ x \in DOMAIN q.new /\ x \in live
          /\ q.op = "move" => x \in Writes(q)
      BY <1>6, CommitInBlocks
    <2>2. placed[x] = q.old[x]
      BY <1>1, <1>3, <1>6, <2>1 DEF BlockRequest, KnowsColumns
    <2>3. placed'[x] = q.new[x]
      BY <2>1, <2>2, WrittenFields
    <2>4. CASE q.op = "edit"
      BY <1>1, <1>6, <2>1, <2>3, <2>4 DEF BlockRequest, BlockShape
    <2>5. CASE q.op = "move"
      <3>1. x \notin clamped /\ Shifted(q, x) \in Time
        BY <1>2, <1>3, <2>1, <2>5 DEF Cut, ColumnsMoved
      <3>2. Length(q.old[x]) = q.old[x].length /\ q.new[x].length = q.old[x].length
        BY <1>1, <1>4, <1>6, <2>1, <2>2, <2>5, <3>1 DEF BlockRequest, BlockShape
      <3>3. /\ q.new[x].start = q.to.start /\ q.old[x].start = q.from.start
            /\ q.new[x].end = AddMinutes(q.old[x].end, q.to.start - q.from.start)
        <4>1. q.at # "received"
          BY DEF CommitPlacement, Ready
        <4>2. QED
          BY <1>1, <1>3, <1>6, <2>1, <2>5, <4>1 DEF MoveComputed, BlockRequest, KnowsBlock, Aligned
      <3>4. q.new[x].end = q.old[x].end + (q.to.start - q.from.start)
        BY <3>1, <3>3 DEF AddMinutes, Shifted
      <3>5. q.old[x].end \in Int /\ q.to.start \in Int /\ q.from.start \in Int
        BY <1>1, <2>1, TimeIsInt DEF RequestTyped, PlaceShape, HeadShape
      <3>6. Length(q.new[x]) = Length(q.old[x])
        BY <3>3, <3>4, <3>5 DEF Length
      <3>7. QED
        BY <2>3, <3>2, <3>6
    <2>6. QED
      BY <1>6, <2>4, <2>5
  <1>7. CASE /\ q.op \in {"block", "add"} /\ g = q.group
             /\ x \in DOMAIN q.new /\ placed'[x] = q.new[x]
    BY <1>1, <1>7 DEF BlockRequest, BlockShape
  <1>8. QED
    BY <1>5, <1>6, <1>7, ColumnAfterCommit

LEMMA CommitPlacementKeepsBlocks ==
    ASSUME ScheduleInv, BlocksInv, NEW q \in requests, CommitPlacement(q) PROVE BlocksInv'
  BY PlacementKeepsHandlers, PlacementKeepsGroups, PlacementKeepsSize, PlacementKeepsStarts,
     PlacementKeepsLengths
  DEF BlocksInv, BlocksHold
-------------------------------------------------------------------------------
(* Sessions and groups go: blocks. *)

\* What a deletion takes, and what stays as it was.
GoneWith(q) == IF q.op = "clear" THEN DOMAIN q.old ELSE {q.on}
GroupsGone(q) == IF q.op = "clear" \/ Dissolves(q) THEN {q.group} ELSE {}

LEMMA DeletionInBlocks ==
    ASSUME ScheduleInv, BlocksInv, NEW q \in requests, CommitDeletion(q)
    PROVE  /\ live' = live \ GoneWith(q) /\ blocks' = blocks \ GroupsGone(q)
           /\ GroupsGone(q) \subseteq {q.group} /\ NoGroup \notin GroupsGone(q)
           /\ \A x \in live' :
                 /\ placed[x].group \notin GroupsGone(q) => placed'[x] = placed[x]
                 /\ placed[x].group \in GroupsGone(q) => placed'[x].group = NoGroup
           /\ \A g \in Group \ GroupsGone(q) : head'[g] = head[g]
           /\ \A g, ops : g \notin GroupsGone(q) /\ Uncrossed(g, ops)' =>
                 Uncrossed(g, ops) /\ <<g, ops>> \notin Crossing(q)
           /\ clamped' = clamped \ GoneWith(q) /\ leftover' = leftover \ GroupsGone(q)
           /\ \A g \in blocks' : Columns(g)' = Columns(g) \ GoneWith(q)
           /\ \A g \in blocks \ {q.group} : Columns(g) \cap GoneWith(q) = {}
  <1>1. /\ PlacesTyped /\ BlockRequest(q) /\ RequestTyped(q)
        /\ blocks \subseteq Group /\ NoGroup \notin Group
    BY ScheduleAssumption
    DEF ScheduleInv, RequestsHold, BlocksInv, HandlersHold, PlacesTyped, ScheduleAssumption
  <1>2. /\ Remove(GoneWith(q), GroupsGone(q)) /\ q.op \in {"delete", "clear"}
        /\ crossed' = {c \in crossed \cup Crossing(q) : c[1] \notin GroupsGone(q)}
        /\ leftover' = leftover \ GroupsGone(q)
    BY DEF CommitDeletion, GoneWith, GroupsGone
  <1>3. GroupsGone(q) \subseteq {q.group} /\ NoGroup \notin GroupsGone(q)
    BY <1>1 DEF GroupsGone, Dissolves, BlockRequest, BlockShape
  <1>4. /\ live' = live \ GoneWith(q) /\ blocks' = blocks \ GroupsGone(q)
        /\ placed' = [x \in Session |->
               IF x \in GoneWith(q) THEN NoRow
               ELSE IF placed[x].group \in GroupsGone(q) THEN [placed[x] EXCEPT !.group = NoGroup]
               ELSE placed[x]]
        /\ head' = [g \in Group |-> IF g \in GroupsGone(q) THEN NoHead ELSE head[g]]
        /\ clamped' = clamped \ GoneWith(q)
    BY <1>2 DEF Remove
  <1>5. ASSUME NEW x \in live'
        PROVE  /\ placed[x].group \notin GroupsGone(q) => placed'[x] = placed[x]
               /\ placed[x].group \in GroupsGone(q) => placed'[x].group = NoGroup
    <2>1. x \in Session /\ x \notin GoneWith(q) /\ placed[x] \in PlaceShape
      BY <1>1, <1>4, <1>5 DEF PlacesTyped
    <2>2. [placed[x] EXCEPT !.group = NoGroup].group = NoGroup
      BY <2>1 DEF PlaceShape
    <2>3. QED
      BY <1>4, <2>1, <2>2
  <1>6. ASSUME NEW g, NEW ops, g \notin GroupsGone(q), Uncrossed(g, ops)'
        PROVE  Uncrossed(g, ops) /\ <<g, ops>> \notin Crossing(q)
    <2>1. <<g, ops>>[1] = g
      OBVIOUS
    <2>2. QED
      BY <1>2, <1>6, <2>1 DEF Uncrossed
  <1>7. ASSUME NEW g \in blocks' PROVE Columns(g)' = Columns(g) \ GoneWith(q)
    <2>1. g \notin GroupsGone(q) /\ g # NoGroup
      BY <1>1, <1>4, <1>7
    <2>2. \A x \in live' : placed'[x].group = g <=> placed[x].group = g
      BY <1>5, <2>1
    <2>3. QED
      BY <1>4, <2>2 DEF Columns
  <1>8. ASSUME NEW g \in blocks \ {q.group} PROVE Columns(g) \cap GoneWith(q) = {}
    <2>1. SUFFICES ASSUME NEW x \in live, x \in GoneWith(q), placed[x].group = g PROVE FALSE
      BY DEF Columns
    <2>2. placed[x].group = GroupNow(q)
      BY <1>1, <1>2, <2>1 DEF GoneWith, BlockRequest, StaysInBlock, Loading
    <2>3. QED
      BY <1>1, <1>8, <2>1, <2>2 DEF GroupNow
  <1>9. \A x \in live' :
           /\ placed[x].group \notin GroupsGone(q) => placed'[x] = placed[x]
           /\ placed[x].group \in GroupsGone(q) => placed'[x].group = NoGroup
    BY <1>5
  <1>10. \A g \in Group \ GroupsGone(q) : head'[g] = head[g]
    BY <1>4
  <1>11. \A g, ops : g \notin GroupsGone(q) /\ Uncrossed(g, ops)' =>
               Uncrossed(g, ops) /\ <<g, ops>> \notin Crossing(q)
    BY <1>6
  <1>12. \A g \in blocks' : Columns(g)' = Columns(g) \ GoneWith(q)
    BY <1>7
  <1>13. QED
    BY <1>2, <1>3, <1>4, <1>8, <1>9, <1>10, <1>11, <1>12

LEMMA DeletionKeepsOther ==
    ASSUME ScheduleInv, BlocksInv, NEW q \in requests, CommitDeletion(q), NEW e \in Others(q)
    PROVE  BlockRequest(e)'
  <1>1. /\ BlockRequest(e) /\ NewTo(e, q) /\ Crosses(q, e)
        /\ blocks \subseteq Group /\ NoGroup \notin Group
    BY ScheduleAssumption, OthersCross
    DEF BlocksInv, HandlersHold, Others, ScheduleInv, PlacesTyped, ScheduleAssumption
  <1>2. /\ live' = live \ GoneWith(q) /\ blocks' = blocks \ GroupsGone(q)
        /\ GroupsGone(q) \subseteq {q.group} /\ NoGroup \notin GroupsGone(q)
        /\ \A x \in live' :
              /\ placed[x].group \notin GroupsGone(q) => placed'[x] = placed[x]
              /\ placed[x].group \in GroupsGone(q) => placed'[x].group = NoGroup
        /\ \A g \in Group \ GroupsGone(q) : head'[g] = head[g]
        /\ \A g, ops : g \notin GroupsGone(q) /\ Uncrossed(g, ops)' =>
              Uncrossed(g, ops) /\ <<g, ops>> \notin Crossing(q)
        /\ \A g \in blocks' : Columns(g)' = Columns(g) \ GoneWith(q)
        /\ \A g \in blocks \ {q.group} : Columns(g) \cap GoneWith(q) = {}
    BY DeletionInBlocks
  <1>3. BlockShape(e)' /\ IdsAreFree(e)'
    BY <1>1, <1>2 DEF BlockRequest, BlockShape, IdsAreFree
  <1>4. StaysInBlock(e)'
    <2>1. ASSUME NEW x \in live', placed[x].group = GroupNow(e) PROVE placed'[x].group = GroupNow(e)'
      BY <1>1, <1>2, <2>1 DEF GroupNow
    <2>2. live' \subseteq live
      BY <1>2
    <2>3. QED
      BY <1>1, <2>1, <2>2 DEF BlockRequest, StaysInBlock
  <1>5. KnowsBlock(e)'
    <2>1. e.op = "block" => e.from = head'[e.group]
      BY <1>1, <1>2 DEF BlockRequest, BlockShape, KnowsBlock, NewTo
    <2>2. ASSUME e.group \in blocks', Uncrossed(e.group, {"add", "move"})'
          PROVE  /\ e.op = "add" => e.to = head'[e.group]
                 /\ (e.op = "move" /\ Uncrossed(e.group, {"load", "move"})') =>
                       IF e.at = "received" THEN e.from = head'[e.group]
                       ELSE Columns(e.group)' \subseteq DOMAIN e.old /\ \A x \in DOMAIN e.old : Aligned(e, x)
      <3>1. /\ e.group \in blocks /\ e.group \notin GroupsGone(q)
            /\ Uncrossed(e.group, {"add", "move"})
            /\ Uncrossed(e.group, {"load", "move"})' => Uncrossed(e.group, {"load", "move"})
        BY <1>2, <2>2
      <3>2. head'[e.group] = head[e.group] /\ Columns(e.group)' \subseteq Columns(e.group)
        BY <1>1, <1>2, <2>2, <3>1
      <3>3. QED
        BY <1>1, <3>1, <3>2 DEF BlockRequest, KnowsBlock
    <2>3. QED
      BY <2>1, <2>2 DEF KnowsBlock, Aligned
  <1>6. KnowsColumns(e)'
    <2>1. SUFFICES ASSUME e.group \in blocks', e.op \in {"edit", "move"},
                          Uncrossed(e.group, {e.op})', Uncrossed(e.group, {"edit", "move"})',
                          NEW x \in DOMAIN e.old \cap live'
                   PROVE  placed'[x] = e.old[x]
      BY DEF KnowsColumns
    <2>2. /\ e.group \in blocks /\ e.group \notin GroupsGone(q) /\ x \in live
          /\ Uncrossed(e.group, {e.op}) /\ Uncrossed(e.group, {"edit", "move"})
      BY <1>2, <2>1
    <2>3. placed[x] = e.old[x] /\ placed[x].group = e.group
      BY <1>1, <2>1, <2>2 DEF BlockRequest, KnowsColumns, StaysInBlock, GroupNow, Loading
    <2>4. QED
      BY <1>2, <2>1, <2>2, <2>3
  <1>7. CountIsCurrent(e)'
    <2>1. SUFFICES ASSUME e.at = "counted", e.group \in blocks', Uncrossed(e.group, {"delete"})'
                   PROVE  e.remaining \subseteq Columns(e.group)' \ {e.on}
      BY <1>1 DEF BlockRequest, CountIsCurrent
    <2>2. /\ e.group \in blocks /\ e.group \notin GroupsGone(q)
          /\ Uncrossed(e.group, {"delete"}) /\ <<e.group, {"delete"}>> \notin Crossing(q)
      BY <1>2, <2>1
    <2>3. e.group # q.group
      <3>1. SUFFICES ASSUME e.group = q.group PROVE FALSE
        OBVIOUS
      <3>2. e.op = "delete"
        BY <2>1 DEF BlocksInv, ScheduleInv, RequestsHold, RequestTyped, Others
      <3>3. q.op = "delete"
        BY <2>2, <3>1 DEF CommitDeletion, GroupsGone
      <3>4. {q.op, e.op} = {"delete"}
        BY <3>2, <3>3
      <3>5. QED
        BY <1>1, <2>1, <2>2, <3>1, <3>2, <3>4 DEF Crosses, Doing
    <2>4. Columns(e.group)' = Columns(e.group)
      BY <1>2, <2>1, <2>2, <2>3
    <2>5. QED
      BY <1>1, <2>1, <2>2, <2>4 DEF BlockRequest, CountIsCurrent
  <1>8. QED
    BY <1>3, <1>4, <1>5, <1>6, <1>7 DEF BlockRequest

LEMMA DeletionKeepsSize ==
    ASSUME ScheduleInv, BlocksInv, NEW q \in requests, CommitDeletion(q)
    PROVE  BlocksHaveColumns'
  <1>1. PlacesTyped /\ BlockRequest(q) /\ RequestTyped(q)
    BY DEF ScheduleInv, RequestsHold, BlocksInv, HandlersHold
  <1>2. SUFFICES ASSUME NEW g \in blocks' \ leftover', Uncrossed(g, {"delete"})'
                 PROVE  Cardinality(Columns(g)') >= 2
    BY DEF BlocksHaveColumns, Uncrossed
  <1>3. /\ g \in blocks \ leftover /\ g \notin GroupsGone(q) /\ Uncrossed(g, {"delete"})
        /\ Columns(g)' = Columns(g) \ GoneWith(q)
        /\ g # q.group => Columns(g) \cap GoneWith(q) = {}
    BY <1>2, DeletionInBlocks
  <1>4. CASE g # q.group
    <2>1. Columns(g)' = Columns(g)
      BY <1>3, <1>4
    <2>2. QED
      BY <1>3, <2>1 DEF BlocksInv, BlocksHold, BlocksHaveColumns, Uncrossed
  <1>5. CASE g = q.group
    <2>1. q.op = "delete" /\ ~Dissolves(q) /\ g # NoGroup
      BY <1>1, <1>3, <1>5, ScheduleAssumption
      DEF CommitDeletion, GroupsGone, PlacesTyped, ScheduleAssumption
    <2>2. q.at = "counted"
      BY <1>1, <2>1 DEF CommitDeletion, Ready, BlockRequest, CountIsCurrent
    <2>3. q.remaining \subseteq Columns(g) \ {q.on}
      BY <1>1, <1>3, <1>5, <2>2 DEF BlockRequest, CountIsCurrent
    <2>4. q.remaining \in SUBSET (Columns(g)') /\ Columns(g)' \in SUBSET Session
      BY <1>1, <1>3, <2>1, <2>3 DEF GoneWith, Columns, PlacesTyped
    <2>5. Cardinality(q.remaining) \in Nat
      BY <2>4, PartsOfColumns
    <2>6. Cardinality(q.remaining) >= 2
      BY <1>5, <2>1, <2>5 DEF Dissolves
    <2>7. QED
      BY <2>4, <2>6, PartsOfColumns
  <1>6. QED
    BY <1>4, <1>5

LEMMA CommitDeletionKeepsBlocks ==
    ASSUME ScheduleInv, BlocksInv, NEW q \in requests, CommitDeletion(q) PROVE BlocksInv'
  <1>1. PlacesTyped /\ blocks \subseteq Group /\ NoGroup \notin Group
    BY ScheduleAssumption DEF ScheduleInv, PlacesTyped, ScheduleAssumption
  <1>2. /\ live' = live \ GoneWith(q) /\ blocks' = blocks \ GroupsGone(q)
        /\ GroupsGone(q) \subseteq {q.group} /\ NoGroup \notin GroupsGone(q)
        /\ \A x \in live' :
              /\ placed[x].group \notin GroupsGone(q) => placed'[x] = placed[x]
              /\ placed[x].group \in GroupsGone(q) => placed'[x].group = NoGroup
        /\ \A g \in Group \ GroupsGone(q) : head'[g] = head[g]
        /\ \A g, ops : g \notin GroupsGone(q) /\ Uncrossed(g, ops)' => Uncrossed(g, ops)
        /\ clamped' = clamped \ GoneWith(q)
        /\ \A g \in blocks' : Columns(g)' = Columns(g) \ GoneWith(q)
    BY DeletionInBlocks
  <1>3. HandlersHold'
    <2>1. requests' = Others(q)
      BY DEF CommitDeletion
    <2>2. \A d, e \in requests' : d # e => NewTo(d, e)'
      BY <2>1 DEF BlocksInv, HandlersHold, Others, NewTo
    <2>3. QED
      BY <2>1, <2>2, DeletionKeepsOther DEF HandlersHold
  <1>4. GroupsExist'
    BY <1>2 DEF BlocksInv, GroupsExist
  <1>5. ASSUME NEW g \in blocks', NEW x \in Columns(g)'
        PROVE  /\ x \in Columns(g) /\ x \notin GoneWith(q) /\ placed'[x] = placed[x]
               /\ g \in blocks /\ g \notin GroupsGone(q) /\ head'[g] = head[g]
    <2>1. x \in Columns(g) /\ x \notin GoneWith(q) /\ g \in blocks /\ g \notin GroupsGone(q)
      BY <1>2, <1>5
    <2>2. placed[x].group = g /\ x \in live'
      BY <1>2, <2>1 DEF Columns
    <2>3. QED
      BY <1>1, <1>2, <2>1, <2>2
  <1>6. ColumnsStartTogether'
    <2>1. SUFFICES ASSUME NEW g \in blocks', Uncrossed(g, {"add", "move"})',
                          Uncrossed(g, {"load", "move"})', NEW x \in Columns(g)'
                   PROVE  BlockHead(placed'[x].day, placed'[x].start) = head'[g]
      BY DEF ColumnsStartTogether, Torn, Uncrossed
    <2>2. /\ x \in Columns(g) /\ placed'[x] = placed[x] /\ g \in blocks
          /\ head'[g] = head[g] /\ Uncrossed(g, {"add", "move"}) /\ Uncrossed(g, {"load", "move"})
      BY <1>2, <1>5, <2>1
    <2>3. QED
      BY <2>2 DEF BlocksInv, BlocksHold, ColumnsStartTogether, Torn, Uncrossed
  <1>7. LengthsKept'
    <2>1. SUFFICES ASSUME NEW g \in blocks',
                          Uncrossed(g, {"move"})', Uncrossed(g, {"edit"})',
                          Uncrossed(g, {"edit", "move"})', Uncrossed(g, {"add", "move"})',
                          Uncrossed(g, {"load", "move"})',
                          NEW x \in Columns(g)', x \notin clamped'
                   PROVE  Length(placed'[x]) = placed'[x].length
      BY DEF LengthsKept, Torn, Uncrossed
    <2>2. /\ x \in Columns(g) /\ placed'[x] = placed[x] /\ g \in blocks /\ x \notin clamped
          /\ Uncrossed(g, {"move"}) /\ Uncrossed(g, {"edit"})
          /\ Uncrossed(g, {"edit", "move"}) /\ Uncrossed(g, {"add", "move"})
          /\ Uncrossed(g, {"load", "move"})
      BY <1>2, <1>5, <2>1
    <2>3. QED
      BY <2>2 DEF BlocksInv, BlocksHold, LengthsKept, Torn, Uncrossed
  <1>8. QED
    BY <1>3, <1>4, <1>6, <1>7, DeletionKeepsSize DEF BlocksInv, BlocksHold

LEMMA ResetKeepsBlocks ==
    ASSUME BlocksInv, ResetAllData PROVE BlocksInv'
  <1>1. live' = {} /\ blocks' = blocks /\ leftover' = leftover \cup blocks /\ requests' = {}
    BY DEF ResetAllData, Remove
  <1>2. \A g : Columns(g)' = {}
    BY <1>1 DEF Columns
  <1>3. QED
    BY <1>1, <1>2 DEF BlocksInv, HandlersHold, GroupsExist, BlocksHold, BlocksHaveColumns,
       ColumnsStartTogether, LengthsKept

-------------------------------------------------------------------------------
LEMMA InitBlocksInv == ScheduleInit => BlocksInv
  <1> SUFFICES ASSUME ScheduleInit PROVE BlocksInv
    OBVIOUS
  <1>1. HandlersHold
    BY DEF ScheduleInit, HandlersHold
  <1>2. CASE live = {} /\ blocks = {}
    BY <1>1, <1>2 DEF BlocksInv, GroupsExist, BlocksHold, BlocksHaveColumns, ColumnsStartTogether,
       LengthsKept
  <1>3. ASSUME NEW g \in Group, live = Session, Cardinality(Session) >= 2, blocks = {g},
               placed = [x \in Session |-> Row(NoHead.day, NoHead.start, 1, NoRoom, g)]
        PROVE  BlocksInv
    <2>1. \A x \in Session : /\ placed[x].group = g /\ Length(placed[x]) = placed[x].length
                             /\ BlockHead(placed[x].day, placed[x].start) = NoHead
      BY <1>3 DEF Row, Length, BlockHead, NoHead
    <2>2. head[g] = NoHead /\ Columns(g) = Session
      BY <1>3, <2>1 DEF ScheduleInit, Columns
    <2>3. QED
      BY <1>1, <1>3, <2>1, <2>2 DEF BlocksInv, GroupsExist, BlocksHold, BlocksHaveColumns,
         ColumnsStartTogether, LengthsKept
  <1>4. QED
    BY <1>2, <1>3 DEF ScheduleInit

LEMMA NextBlocksInv == ScheduleInv /\ BlocksInv /\ [ScheduleNext]_scheduleVars => BlocksInv'
  <1> SUFFICES ASSUME ScheduleInv, BlocksInv, [ScheduleNext]_scheduleVars PROVE BlocksInv'
    OBVIOUS
  <1> PlacesTyped
    BY DEF ScheduleInv
  <1>1. ASSUME NEW day \in Day, NEW start \in Time, NEW end \in Time, NEW room \in Room \cup {NoRoom},
               \/ CreateSession(day, start, end, room) \/ ApplyTemplate(day, start, end, room)
               \/ \E x \in live :
                     UpdateSession(x, [day |-> day, start |-> start, end |-> end, room |-> room])
        PROVE  BlocksInv'
    BY <1>1, CreateSessionKeepsBlocks, UpdateSessionKeepsBlocks
  <1>2. ASSUME NEW day \in Day, NEW start \in Time, NEW g \in blocks, UpdateGroup(g, day, start)
        PROVE  BlocksInv'
    BY <1>2, UpdateGroupKeepsBlocks
  <1>3. ASSUME NEW day \in Day, NEW start \in Time, NEW count \in Count, NEW minutes \in Duration,
               CreateParallelBlock(count, day, start, minutes)
        PROVE  BlocksInv'
    BY <1>3, CreateBlockKeepsBlocks
  <1>4. ASSUME NEW g \in blocks, NEW minutes \in Duration, AddColumn(g, minutes) PROVE BlocksInv'
    BY <1>4, AddColumnKeepsBlocks
  <1>5. ASSUME (\E g \in blocks : DeleteGroup(g)) \/ (\E x \in live : DeleteSession(x)) PROVE BlocksInv'
    BY <1>5, DeletionsKeepBlocks
  <1>6. ASSUME NEW q \in requests,
               \/ LoadColumns(q) \/ CheckOverlap(q) \/ CountRemaining(q)
               \/ CommitPlacement(q) \/ CommitDeletion(q) \/ RollBack(q)
        PROVE  BlocksInv'
    BY <1>6, LoadColumnsKeepsBlocks, CheckOverlapKeepsBlocks, CountRemainingKeepsBlocks, CommitPlacementKeepsBlocks,
       CommitDeletionKeepsBlocks, DroppedKeepsBlocks DEF RollBack
  <1>7. CASE ResetAllData
    BY <1>7, ResetKeepsBlocks
  <1>8. CASE UNCHANGED scheduleVars
    <2>1. UNCHANGED <<program, marks>> /\ requests' = requests
      BY <1>8 DEF scheduleVars, program, marks
    <2>2. QED
      BY <2>1, SameProgramHolds DEF BlocksInv, HandlersHold
  <1>9. QED
    BY <1>1, <1>2, <1>3, <1>4, <1>5, <1>6, <1>7, <1>8 DEF ScheduleNext

\* Blocks keep their columns, these start together and last as long as they
\* were told to, but by the named causes: whatever _dissolve_group_if_orphaned,
\* update_group and add_column work with at the same time.
THEOREM BlocksStayTogether == ScheduleSpec => []BlocksHold
  <1>1. ScheduleInv /\ [ScheduleNext]_scheduleVars => ScheduleInv'
    BY NextScheduleInv
  <1>2. BlocksInv => BlocksHold
    BY DEF BlocksInv
  <1>3. QED
    BY InitScheduleInv, <1>1, InitBlocksInv, NextBlocksInv, <1>2, PTL DEF ScheduleSpec

-------------------------------------------------------------------------------
(* The check of a day's program. *)

\* The least of some natural numbers: what is proved by induction below is proved
\* of the least number it would be false of.
LEMMA LeastOf == ASSUME NEW T, T \subseteq Nat, T # {} PROVE \E m \in T : \A k \in T : m <= k
<1>1. PICK R : R = OpToRel(<, Nat)
  OBVIOUS
<1>2. IsWellFoundedOn(R, Nat)
  BY <1>1, NatLessThanWellFounded, Zenon
<1>3. R = {ss \in Nat \X Nat : ss[1] < ss[2]}
  BY <1>1 DEF OpToRel
<1>4. PICK m \in T : \A k \in T : <<k, m>> \notin R
  BY <1>2, WFMin
<1>5. ASSUME NEW k \in T PROVE m <= k
  <2>1. k \in Nat /\ m \in Nat /\ <<k, m>> \in Nat \X Nat
    OBVIOUS
  <2>2. <<k, m>>[1] = k /\ <<k, m>>[2] = m
    OBVIOUS
  <2>3. ~(k < m)
    BY <1>3, <1>4, <2>1, <2>2
  <2> QED
    BY <2>1, <2>3
<1> QED
  BY <1>5

\* What is so of 0 and, up to n, of a number after one it is so of, is so up to n.
LEMMA UpTo ==
    ASSUME NEW T, NEW n \in Nat, 0 \in T, \A k \in Nat : k < n /\ k \in T => k + 1 \in T
    PROVE  \A k \in 0 .. n : k \in T
<1> SUFFICES ASSUME NEW j \in 0 .. n, j \notin T PROVE FALSE
  OBVIOUS
<1> DEFINE F == {k \in 0 .. n : k \notin T}
<1>1. F \subseteq Nat /\ F # {}
  OBVIOUS
<1> HIDE DEF F
<1>2. PICK m \in F : \A k \in F : m <= k
  BY <1>1, LeastOf
<1>3. m \in Nat /\ m <= n /\ m \notin T /\ m # 0
  BY DEF F
<1>4. m - 1 \in Nat /\ m - 1 \notin F
  BY <1>2, <1>3, <1>1
<1>5. m - 1 \in T
  BY <1>3, <1>4 DEF F
<1> QED
  BY <1>3, <1>4, <1>5

\* Times are hours of the day.
CalendarTyped == \A x \in Planned : /\ calendar[x].start \in Nat /\ calendar[x].end \in Nat
                                    /\ calendar[x].start <= LastHour /\ calendar[x].end <= LastHour

\* A day in order, each session once.
Sorted(day, n) == \A i, j \in 1 .. n : i < j => day[i] # day[j] /\ Before(day[i], day[j])

\* The rows the query returns are typed.
LEMMA CalendarIsTyped == ASSUME CheckInit PROVE CalendarTyped
  BY CheckAssumption DEF CheckInit, CalendarTyped, Hour

\* Among some sessions one comes first.
LEMMA OneComesFirst ==
    ASSUME CalendarTyped, NEW S \in SUBSET Planned, S # {}
    PROVE  \E m \in S : \A x \in S : Before(m, x)
<1> DEFINE starts == {calendar[x].start : x \in S}
<1>1. PICK a \in starts : \A k \in starts : a <= k
  <2>1. starts \subseteq Nat /\ starts # {}
    BY DEF CalendarTyped
  <2> HIDE DEF starts
  <2> QED
    BY <2>1, LeastOf
<1> DEFINE ends == {calendar[x].end : x \in {y \in S : calendar[y].start = a}}
<1>2. PICK b \in ends : \A k \in ends : b <= k
  <2>1. ends \subseteq Nat /\ ends # {}
    BY DEF CalendarTyped
  <2> HIDE DEF ends
  <2> QED
    BY <2>1, LeastOf
<1>3. PICK m \in S : calendar[m].start = a /\ calendar[m].end = b
  OBVIOUS
<1>4. ASSUME NEW x \in S PROVE Before(m, x)
  <2>1. a <= calendar[x].start /\ (calendar[x].start = a => b <= calendar[x].end)
    BY <1>1, <1>2
  <2>2. calendar[x].start \in Nat /\ a \in Nat
    BY <1>3 DEF CalendarTyped
  <2> QED
    BY <1>3, <2>1, <2>2 DEF Before
<1> QED
  BY <1>4

\* So they can be sorted.
LEMMA CanBeSorted ==
    ASSUME CalendarTyped, NEW S \in SUBSET Planned
    PROVE  \E day \in [1 .. Cardinality(S) -> S] : Sorted(day, Cardinality(S))
<1> DEFINE T == {n \in Nat : \A U \in SUBSET Planned :
                     Cardinality(U) = n => \E day \in [1 .. n -> U] : Sorted(day, n)}
<1>0. \A U \in SUBSET Planned : IsFiniteSet(U) /\ Cardinality(U) \in Nat
  BY CheckAssumption, FS_Subset, FS_CardinalityType
<1>1. 0 \in T
  <2> SUFFICES ASSUME NEW U \in SUBSET Planned PROVE \E day \in [1 .. 0 -> U] : Sorted(day, 0)
    OBVIOUS
  <2>1. PICK day : day = [i \in 1 .. 0 |-> i]
    OBVIOUS
  <2>2. day \in [1 .. 0 -> U]
    BY <2>1
  <2>3. Sorted(day, 0)
    BY DEF Sorted
  <2> QED
    BY <2>2, <2>3
<1>2. ASSUME NEW n \in Nat, n \in T PROVE n + 1 \in T
  <2> SUFFICES ASSUME NEW U \in SUBSET Planned, Cardinality(U) = n + 1
               PROVE  \E day \in [1 .. n + 1 -> U] : Sorted(day, n + 1)
    OBVIOUS
  <2>1. U # {}
    BY FS_EmptySet
  <2>2. PICK m \in U : \A x \in U : Before(m, x)
    BY <2>1, OneComesFirst
  <2>3. Cardinality(U \ {m}) = n
    BY <1>0, FS_RemoveElement
  <2>4. PICK rest \in [1 .. n -> U \ {m}] : Sorted(rest, n)
    BY <1>2, <2>3
  <2> DEFINE day == [i \in 1 .. n + 1 |-> IF i = 1 THEN m ELSE rest[i - 1]]
  <2>5. day \in [1 .. n + 1 -> U]
    BY <2>4
  <2>6. ASSUME NEW i \in 1 .. n + 1, NEW j \in 1 .. n + 1, i < j
        PROVE  day[i] # day[j] /\ Before(day[i], day[j])
    <3>1. j - 1 \in 1 .. n /\ day[j] = rest[j - 1] /\ rest[j - 1] \in U \ {m}
      BY <2>4, <2>6
    <3>2. CASE i = 1
      BY <2>2, <3>1, <3>2
    <3>3. CASE i # 1
      <4>1. i - 1 \in 1 .. n /\ day[i] = rest[i - 1] /\ i - 1 < j - 1
        BY <2>6, <3>3
      <4> HIDE DEF day
      <4> QED
        BY <2>4, <3>1, <4>1 DEF Sorted
    <3> QED
      BY <3>2, <3>3
  <2>7. Sorted(day, n + 1)
    BY <2>6 DEF Sorted
  <2> QED
    BY <2>5, <2>7
<1> HIDE DEF T
<1>3. Cardinality(S) \in Nat
  BY <1>0
<1>4. \A k \in 0 .. Cardinality(S) : k \in T
  BY <1>1, <1>2, <1>3, UpTo
<1>5. Cardinality(S) \in T
  BY <1>3, <1>4
<1> QED
  BY <1>5 DEF T

\* The loops run over all the sessions of the day, in order.
LEMMA DayIsSorted ==
    ASSUME CheckInit
    PROVE  /\ CheckedSessions \in Nat
           /\ InOrder \in [1 .. CheckedSessions -> Planned]
           /\ Sorted(InOrder, CheckedSessions)
           /\ \A x \in Planned : \E i \in 1 .. CheckedSessions : InOrder[i] = x
<1> DEFINE n == CheckedSessions
<1>1. n \in Nat
  BY CheckAssumption, FS_CardinalityType DEF CheckedSessions
<1>2. \E day \in [1 .. n -> Planned] : Sorted(day, n)
  BY CalendarIsTyped, CanBeSorted DEF CheckedSessions
<1>3. InOrder \in [1 .. n -> Planned] /\ Sorted(InOrder, n)
  BY <1>2 DEF InOrder, Sorted
<1>4. ASSUME NEW x \in Planned, \A i \in 1 .. n : InOrder[i] # x PROVE FALSE
  <2>1. InOrder \in [1 .. n -> Planned \ {x}]
    BY <1>3, <1>4
  <2>2. IsFiniteSet(Planned \ {x}) /\ Cardinality(Planned \ {x}) = n - 1
    BY CheckAssumption, FS_RemoveElement DEF CheckedSessions
  <2>3. IsFiniteSet(1 .. n) /\ Cardinality(1 .. n) = n
    BY <1>1, FS_Interval
  <2> HIDE DEF n
  <2>4. PICK i \in 1 .. n, j \in 1 .. n : i # j /\ InOrder[i] = InOrder[j]
    BY <1>1, <2>1, <2>2, <2>3, FS_PigeonHole
  <2> QED
    BY <1>1, <1>3, <2>4 DEF Sorted
<1> QED
  BY <1>1, <1>3, <1>4

\* For two sessions in the order of the day, the loops find what they have in
\* common: between them no session starts after the first has ended.
LEMMA LoopsFind ==
    ASSUME CheckInit, NEW i \in 1 .. CheckedSessions, NEW j \in 1 .. CheckedSessions, i < j
    PROVE  Overlap(InOrder, i, j) <=>
               /\ \E h \in Hour : Covers(InOrder[i], h) /\ Covers(InOrder[j], h)
               /\ ~SameBlock(calendar[InOrder[i]], calendar[InOrder[j]])
<1> DEFINE n == CheckedSessions
           a == calendar[InOrder[i]]
           b == calendar[InOrder[j]]
<1>1. n \in Nat /\ \A k \in 1 .. n : InOrder[k] \in Planned
  BY DayIsSorted
<1>2. \A k \in 1 .. n : /\ calendar[InOrder[k]].start \in Nat /\ calendar[InOrder[k]].end \in Nat
                        /\ calendar[InOrder[k]].end <= LastHour
  BY <1>1, CalendarIsTyped DEF CalendarTyped
<1>3. \A k, l \in 1 .. n : k < l => calendar[InOrder[k]].start <= calendar[InOrder[l]].start
  <2>1. \A k, l \in 1 .. n : k < l => Before(InOrder[k], InOrder[l])
    BY DayIsSorted DEF Sorted
  <2> QED
    BY <1>2, <2>1 DEF Before
<1>4. (\E h \in Hour : Covers(InOrder[i], h) /\ Covers(InOrder[j], h))
      <=> b.start < a.end /\ b.start < b.end
  <2>1. ASSUME NEW h \in Hour, Covers(InOrder[i], h), Covers(InOrder[j], h)
        PROVE  b.start < a.end /\ b.start < b.end
    BY <1>2, <2>1, CheckAssumption DEF Covers, Hour
  <2>2. ASSUME b.start < a.end, b.start < b.end
        PROVE  b.start \in Hour /\ Covers(InOrder[i], b.start) /\ Covers(InOrder[j], b.start)
    BY <1>2, <1>3, <2>2, CheckAssumption DEF Covers, Hour
  <2> QED
    BY <2>1, <2>2
<1>5. b.start < a.end => \A k \in i + 1 .. j : calendar[InOrder[k]].start < a.end
  <2> SUFFICES ASSUME b.start < a.end, NEW k \in i + 1 .. j PROVE calendar[InOrder[k]].start < a.end
    OBVIOUS
  <2>1. k \in 1 .. n /\ (k = j \/ k < j)
    BY <1>1
  <2>2. calendar[InOrder[k]].start <= b.start
    BY <1>2, <1>3, <2>1
  <2> QED
    BY <1>2, <2>1, <2>2
<1> HIDE DEF n
<1> QED
  BY <1>4, <1>5 DEF Overlap

\* What is listed are the pairs the loops find.
LEMMA ListedOverlaps ==
    ASSUME CheckInit, NEW x, NEW y
    PROVE  <<x, y>> \in Overlaps <=>
               \E i, j \in 1 .. CheckedSessions :
                   i < j /\ Overlap(InOrder, i, j) /\ x = InOrder[i] /\ y = InOrder[j]
<1>1. DOMAIN InOrder = 1 .. CheckedSessions
  BY DayIsSorted
<1> DEFINE pairs == {p \in (DOMAIN InOrder) \X (DOMAIN InOrder) :
                         p[1] < p[2] /\ Overlap(InOrder, p[1], p[2])}
<1>2. Overlaps = {<<InOrder[p[1]], InOrder[p[2]]>> : p \in pairs}
  BY DEF Overlaps
<1>3. ASSUME <<x, y>> \in Overlaps
      PROVE  \E i, j \in 1 .. CheckedSessions :
                 i < j /\ Overlap(InOrder, i, j) /\ x = InOrder[i] /\ y = InOrder[j]
  <2>1. PICK p \in pairs : <<x, y>> = <<InOrder[p[1]], InOrder[p[2]]>>
    BY <1>2, <1>3
  <2> QED
    BY <1>1, <2>1
<1>4. ASSUME NEW i \in 1 .. CheckedSessions, NEW j \in 1 .. CheckedSessions,
             i < j, Overlap(InOrder, i, j)
      PROVE  <<InOrder[i], InOrder[j]>> \in Overlaps
  <2>1. <<i, j>> \in pairs /\ <<i, j>>[1] = i /\ <<i, j>>[2] = j
    BY <1>1, <1>4
  <2> HIDE DEF pairs
  <2> QED
    BY <1>2, <2>1
<1> QED
  BY <1>3, <1>4

\* Each two sessions that overlap are listed, once, and no others.
LEMMA OverlapsAreFound == ASSUME CheckInit PROVE OverlapsReported
<1> SUFFICES ASSUME NEW x \in Planned, NEW y \in Planned
             PROVE  LET together == /\ x # y /\ \E h \in Hour : Covers(x, h) /\ Covers(y, h)
                                    /\ ~SameBlock(calendar[x], calendar[y])
                    IN /\ (<<x, y>> \in Overlaps \/ <<y, x>> \in Overlaps) <=> together
                       /\ ~(<<x, y>> \in Overlaps /\ <<y, x>> \in Overlaps)
  BY DEF OverlapsReported
<1>1. PICK i \in 1 .. CheckedSessions, j \in 1 .. CheckedSessions : x = InOrder[i] /\ y = InOrder[j]
  BY DayIsSorted
<1>2. CheckedSessions \in Nat
  BY DayIsSorted
<1>3. \A k, l \in 1 .. CheckedSessions : InOrder[k] = InOrder[l] => k = l
  BY <1>2, DayIsSorted DEF Sorted
<1>4. <<x, y>> \in Overlaps <=> i < j /\ Overlap(InOrder, i, j)
  BY <1>1, <1>3, ListedOverlaps
<1>5. <<y, x>> \in Overlaps <=> j < i /\ Overlap(InOrder, j, i)
  BY <1>1, <1>3, ListedOverlaps
<1>6. SameBlock(calendar[x], calendar[y]) <=> SameBlock(calendar[y], calendar[x])
  BY DEF SameBlock
<1>7. CASE i < j
  BY <1>1, <1>2, <1>3, <1>4, <1>5, <1>7, LoopsFind
<1>8. CASE j < i
  BY <1>1, <1>2, <1>3, <1>4, <1>5, <1>6, <1>8, LoopsFind
<1>9. CASE i = j
  BY <1>1, <1>2, <1>4, <1>5, <1>9
<1> QED
  BY <1>2, <1>7, <1>8, <1>9
-------------------------------------------------------------------------------
(* The gaps. *)

\* The loop that merges: what SpansAfter is after each turn.
LEMMA SpansAfterTurns ==
    ASSUME CheckedSessions \in Nat
    PROVE  SpansAfter = [k \in 0 .. CheckedSessions |->
                             IF k = 0 THEN <<>> ELSE Merge(SpansAfter[k - 1], InOrder[k])]
<1> DEFINE Turns(g, m) ==
               g = [k \in 0 .. m |-> IF k = 0 THEN <<>> ELSE Merge(g[k - 1], InOrder[k])]
           T == {m \in Nat : \E g : Turns(g, m)}
<1>1. 0 \in T
  <2>1. PICK g : g = [k \in 0 .. 0 |-> <<>>]
    OBVIOUS
  <2>2. Turns(g, 0)
    BY <2>1
  <2> QED
    BY <2>2
<1>2. ASSUME NEW m \in Nat, m \in T PROVE m + 1 \in T
  <2>1. PICK g : Turns(g, m)
    BY <1>2
  <2>2. PICK f : f = [k \in 0 .. m + 1 |-> IF k = m + 1 THEN Merge(g[m], InOrder[m + 1]) ELSE g[k]]
    OBVIOUS
  <2>3. ASSUME NEW k \in 0 .. m + 1
        PROVE  f[k] = IF k = 0 THEN <<>> ELSE Merge(f[k - 1], InOrder[k])
    <3>1. CASE k = 0
      BY <2>1, <2>2, <3>1
    <3>2. CASE k \in 1 .. m
      <4>1. f[k] = g[k] /\ f[k - 1] = g[k - 1] /\ k # 0
        BY <2>2, <3>2
      <4>2. g[k] = Merge(g[k - 1], InOrder[k])
        BY <2>1, <3>2
      <4> QED
        BY <4>1, <4>2
    <3>3. CASE k = m + 1
      <4>1. f[k] = Merge(g[m], InOrder[m + 1]) /\ f[k - 1] = g[m] /\ k # 0
        BY <2>2, <3>3
      <4> QED
        BY <3>3, <4>1
    <3> QED
      BY <3>1, <3>2, <3>3
  <2>4. Turns(f, m + 1)
    BY <2>2, <2>3
  <2> QED
    BY <2>4
<1> HIDE DEF T
<1>3. CheckedSessions \in T
  BY <1>1, <1>2, UpTo
<1>4. \E g : Turns(g, CheckedSessions)
  BY <1>3 DEF T
<1> QED
  BY <1>4 DEF SpansAfter

\* A covered stretch of the day.
SpanShape == [start : Nat, end : Nat]

\* What the loop keeps when no session ends before it starts: the spans are
\* disjoint and in order, each begins and ends with a session and is covered, and
\* every session met lies in one; the last began no later than the last session.
SpansFit(spans, k) ==
    /\ spans \in Seq(SpanShape) /\ (spans = <<>> <=> k = 0)
    /\ \A i \in 1 .. Len(spans) :
          /\ spans[i].start <= spans[i].end
          /\ \A h \in Nat : (spans[i].start <= h /\ h < spans[i].end) =>
                 \E j \in 1 .. k : Covers(InOrder[j], h)
          /\ \E j \in 1 .. k : spans[i].start = calendar[InOrder[j]].start
          /\ \E j \in 1 .. k : spans[i].end = calendar[InOrder[j]].end
          /\ k > 0 => spans[i].start <= calendar[InOrder[k]].start
    /\ \A i, j \in 1 .. Len(spans) : i < j => spans[i].end < spans[j].start
    /\ \A j \in 1 .. k : \E i \in 1 .. Len(spans) :
          spans[i].start <= calendar[InOrder[j]].start /\ calendar[InOrder[j]].end <= spans[i].end

\* No session ends before it starts.
Timely == \A x \in Planned : calendar[x].start <= calendar[x].end

\* One turn of the loop.
LEMMA MergeKeeps ==
    ASSUME CheckInit, Timely, NEW k \in Nat, k < CheckedSessions, NEW spans, SpansFit(spans, k)
    PROVE  SpansFit(Merge(spans, InOrder[k + 1]), k + 1)
<1> DEFINE n == CheckedSessions
           s == calendar[InOrder[k + 1]]
           last == Len(spans)
           new == Merge(spans, InOrder[k + 1])
<1>1. n \in Nat /\ \A j \in 1 .. n : InOrder[j] \in Planned
  BY DayIsSorted
<1>2. \A j \in 1 .. n : /\ calendar[InOrder[j]].start \in Nat /\ calendar[InOrder[j]].end \in Nat
                        /\ calendar[InOrder[j]].start <= calendar[InOrder[j]].end
  BY <1>1, CalendarIsTyped DEF CalendarTyped, Timely
<1>3. \A j, l \in 1 .. n : j < l => calendar[InOrder[j]].start <= calendar[InOrder[l]].start
  <2>1. \A j, l \in 1 .. n : j < l => Before(InOrder[j], InOrder[l])
    BY DayIsSorted DEF Sorted
  <2> QED
    BY <1>2, <2>1 DEF Before
<1>4. k + 1 \in 1 .. n /\ s.start \in Nat /\ s.end \in Nat /\ s.start <= s.end
  BY <1>1, <1>2
<1>5. k > 0 => calendar[InOrder[k]].start <= s.start
  BY <1>1, <1>3, <1>4
<1>6. last \in Nat /\ \A i \in 1 .. last : spans[i] \in SpanShape
  BY LenProperties, ElementOfSeq DEF SpansFit
<1>7. \A i \in 1 .. last : spans[i].start \in Nat /\ spans[i].end \in Nat /\ spans[i].start <= s.start
  <2>1. last > 0 => k > 0
    BY <1>6 DEF SpansFit
  <2> SUFFICES ASSUME NEW i \in 1 .. last
               PROVE  spans[i].start \in Nat /\ spans[i].end \in Nat /\ spans[i].start <= s.start
    OBVIOUS
  <2>2. k > 0 /\ spans[i].start <= calendar[InOrder[k]].start
    BY <1>6, <2>1 DEF SpansFit
  <2>3. calendar[InOrder[k]].start \in Nat
    BY <1>1, <1>2, <2>2
  <2> QED
    BY <1>4, <1>5, <1>6, <2>2, <2>3 DEF SpanShape
<1> DEFINE Begins(sp) == \E j \in 1 .. k + 1 : sp.start = calendar[InOrder[j]].start
           Ends(sp) == \E j \in 1 .. k + 1 : sp.end = calendar[InOrder[j]].end
           Filled(sp) == \A h \in Nat : (sp.start <= h /\ h < sp.end) =>
                             \E j \in 1 .. k + 1 : Covers(InOrder[j], h)
           Good(sp) == /\ sp.start <= sp.end /\ Filled(sp) /\ Begins(sp) /\ Ends(sp)
                       /\ sp.start <= s.start
<1>8. \A i \in 1 .. last : Good(spans[i])
  <2> SUFFICES ASSUME NEW i \in 1 .. last PROVE Good(spans[i])
    OBVIOUS
  <2>1. \A j \in 1 .. k : j \in 1 .. k + 1
    OBVIOUS
  <2>2. Filled(spans[i])
    BY <2>1 DEF SpansFit
  <2>3. Begins(spans[i]) /\ Ends(spans[i]) /\ spans[i].start <= spans[i].end
    BY <2>1 DEF SpansFit
  <2> QED
    BY <1>7, <2>2, <2>3
<1> DEFINE Fit(q) ==
               /\ q \in Seq(SpanShape) /\ Len(q) > 0 /\ \A i \in 1 .. Len(q) : Good(q[i])
               /\ \A i, j \in 1 .. Len(q) : i < j => q[i].end < q[j].start
               /\ \A j \in 1 .. k + 1 : \E i \in 1 .. Len(q) :
                     q[i].start <= calendar[InOrder[j]].start /\ calendar[InOrder[j]].end <= q[i].end
<1>9. ASSUME NEW q, Fit(q) PROVE SpansFit(q, k + 1)
  <2>1. q # <<>> /\ k + 1 # 0
    BY <1>9
  <2>2. ASSUME NEW i \in 1 .. Len(q)
        PROVE  /\ q[i].start <= q[i].end
               /\ \A h \in Nat : (q[i].start <= h /\ h < q[i].end) =>
                      \E j \in 1 .. k + 1 : Covers(InOrder[j], h)
               /\ \E j \in 1 .. k + 1 : q[i].start = calendar[InOrder[j]].start
               /\ \E j \in 1 .. k + 1 : q[i].end = calendar[InOrder[j]].end
               /\ q[i].start <= calendar[InOrder[k + 1]].start
    BY <1>9
  <2> QED
    BY <1>9, <2>1, <2>2 DEF SpansFit
<1>10. CASE last > 0 /\ s.start <= spans[last].end
  <2> DEFINE e == IF s.end > spans[last].end THEN s.end ELSE spans[last].end
             sp == [start |-> spans[last].start, end |-> e]
  <2>1. last \in 1 .. last /\ spans[last].start \in Nat /\ spans[last].end \in Nat
    BY <1>6, <1>7, <1>10
  <2>2. new = [spans EXCEPT ![last] = sp] /\ sp \in SpanShape
    <3>1. new = [spans EXCEPT ![last] = Extended(spans[last], s)]
      BY <1>10 DEF Merge
    <3>2. Extended(spans[last], s) = sp /\ sp \in SpanShape
      <4>1. spans[last] \in SpanShape
        BY <1>6, <2>1
      <4> QED
        BY <1>4, <2>1, <4>1 DEF Extended, SpanShape
    <3> QED
      BY <3>1, <3>2
  <2>3. spans \in Seq(SpanShape)
    BY DEF SpansFit
  <2>4. /\ new \in Seq(SpanShape) /\ Len(new) = last /\ new[last] = sp
        /\ \A i \in 1 .. last : i # last => new[i] = spans[i]
    <3> HIDE DEF new, sp
    <3> QED
      BY <1>6, <2>1, <2>2, <2>3, ExceptSeq
  <2>5. e \in Nat /\ s.end <= e /\ spans[last].end <= e
    BY <1>4, <2>1
  <2>6. Good(sp)
    <3>1. k + 1 \in 1 .. k + 1
      OBVIOUS
    <3>2. Begins(sp) /\ Ends(sp)
      BY <1>8, <2>1, <3>1
    <3>3. Filled(sp)
      <4> SUFFICES ASSUME NEW h \in Nat, spans[last].start <= h, h < e
                   PROVE  \E j \in 1 .. k + 1 : Covers(InOrder[j], h)
        OBVIOUS
      <4>1. CASE h < spans[last].end
        BY <1>8, <2>1, <4>1
      <4>2. CASE ~(h < spans[last].end)
        BY <1>4, <1>10, <2>1, <3>1, <4>2 DEF Covers
      <4> QED
        BY <4>1, <4>2
    <3>4. sp.start <= sp.end /\ sp.start <= s.start
      BY <1>7, <1>8, <2>1, <2>5
    <3> QED
      BY <3>2, <3>3, <3>4
  <2> HIDE DEF sp, new
  <2>7. \A i \in 1 .. Len(new) : Good(new[i])
    <3> HIDE DEF Good
    <3> QED
      BY <1>8, <2>4, <2>6
  <2>8. /\ \A i \in 1 .. last : new[i].start = spans[i].start
        /\ \A i \in 1 .. last : i < last => new[i].end = spans[i].end
        /\ \A i \in 1 .. last : new[i].end \in Nat /\ spans[i].end <= new[i].end
        /\ s.end <= new[last].end
    <3>1. sp.start = spans[last].start /\ sp.end = e
      BY DEF sp
    <3> HIDE DEF e
    <3>2. ASSUME NEW i \in 1 .. last
          PROVE  /\ new[i].start = spans[i].start
                 /\ i < last => new[i].end = spans[i].end
                 /\ new[i].end \in Nat /\ spans[i].end <= new[i].end
      <4>1. CASE i = last
        BY <1>6, <2>4, <2>5, <3>1, <4>1
      <4>2. CASE i # last
        <5>1. new[i] = spans[i] /\ spans[i].end \in Nat
          BY <1>7, <2>4, <4>2
        <5> QED
          BY <5>1
      <4> QED
        BY <4>1, <4>2
    <3> QED
      BY <2>4, <2>5, <3>1, <3>2
  <2>9. \A i, j \in 1 .. Len(new) : i < j => new[i].end < new[j].start
    <3> SUFFICES ASSUME NEW i \in 1 .. last, NEW j \in 1 .. last, i < j
                 PROVE  new[i].end < new[j].start
      BY <2>4
    <3>1. spans[i].end < spans[j].start
      BY <1>6 DEF SpansFit
    <3> QED
      BY <1>6, <2>8, <3>1
  <2>10. ASSUME NEW j \in 1 .. k + 1
         PROVE  \E i \in 1 .. Len(new) : /\ new[i].start <= calendar[InOrder[j]].start
                                         /\ calendar[InOrder[j]].end <= new[i].end
    <3>1. CASE j \in 1 .. k
      <4>1. PICK i \in 1 .. last : /\ spans[i].start <= calendar[InOrder[j]].start
                                   /\ calendar[InOrder[j]].end <= spans[i].end
        BY <3>1 DEF SpansFit
      <4>2. calendar[InOrder[j]].end \in Nat
        BY <1>1, <1>2, <3>1
      <4> QED
        BY <1>7, <2>4, <2>8, <4>1, <4>2
    <3>2. CASE j = k + 1
      BY <1>7, <2>1, <2>4, <2>8, <3>2
    <3> QED
      BY <3>1, <3>2
  <2> HIDE DEF Good
  <2>11. Fit(new)
    BY <1>6, <1>10, <2>4, <2>7, <2>9, <2>10
  <2> HIDE DEF Fit
  <2> QED
    BY <1>9, <2>11 DEF new
<1>11. CASE ~(last > 0 /\ s.start <= spans[last].end)
  <2> DEFINE sp == [start |-> s.start, end |-> s.end]
  <2>1. new = Append(spans, sp) /\ sp \in SpanShape
    BY <1>4, <1>11 DEF Merge, Span, SpanShape
  <2>2. spans \in Seq(SpanShape)
    BY DEF SpansFit
  <2>3. /\ new \in Seq(SpanShape) /\ Len(new) = last + 1 /\ new[last + 1] = sp
        /\ \A i \in 1 .. last : new[i] = spans[i]
    <3> HIDE DEF new, sp
    <3> QED
      BY <2>1, <2>2, AppendProperties
  <2>4. Good(sp)
    <3>1. k + 1 \in 1 .. k + 1
      OBVIOUS
    <3>2. Begins(sp) /\ Ends(sp)
      BY <3>1
    <3>3. Filled(sp)
      BY <3>1 DEF Covers
    <3> QED
      BY <1>4, <3>2, <3>3
  <2>5. \A i \in 1 .. last : spans[i].end < s.start
    <3> SUFFICES ASSUME NEW i \in 1 .. last PROVE spans[i].end < s.start
      OBVIOUS
    <3>1. last \in 1 .. last /\ spans[last].end < s.start
      BY <1>4, <1>6, <1>7, <1>11
    <3>2. CASE i = last
      BY <3>1, <3>2
    <3>3. CASE i < last
      <4>1. spans[i].end < spans[last].start
        BY <3>1, <3>3 DEF SpansFit
      <4> QED
        BY <1>4, <1>7, <3>1, <4>1
    <3> QED
      BY <1>6, <3>2, <3>3
  <2> HIDE DEF new
  <2>6. new[last + 1].start = s.start /\ new[last + 1].end = s.end
    BY <2>3
  <2> HIDE DEF sp
  <2>7. \A i \in 1 .. Len(new) : i \in 1 .. last \/ i = last + 1
    BY <1>6, <2>3
  <2>8. \A i \in 1 .. Len(new) : Good(new[i])
    <3> HIDE DEF Good
    <3> QED
      BY <1>8, <2>3, <2>4, <2>7
  <2>9. \A i, j \in 1 .. Len(new) : i < j => new[i].end < new[j].start
    <3> SUFFICES ASSUME NEW i \in 1 .. Len(new), NEW j \in 1 .. Len(new), i < j
                 PROVE  new[i].end < new[j].start
      OBVIOUS
    <3>1. i \in 1 .. last /\ new[i] = spans[i]
      BY <1>6, <2>3
    <3>2. CASE j = last + 1
      BY <2>5, <2>6, <3>1, <3>2
    <3>3. CASE j \in 1 .. last
      <4>1. spans[i].end < spans[j].start
        BY <3>1, <3>3 DEF SpansFit
      <4> QED
        BY <2>3, <3>1, <3>3, <4>1
    <3> QED
      BY <2>7, <3>2, <3>3
  <2>10. ASSUME NEW j \in 1 .. k + 1
         PROVE  \E i \in 1 .. Len(new) : /\ new[i].start <= calendar[InOrder[j]].start
                                         /\ calendar[InOrder[j]].end <= new[i].end
    <3>1. CASE j \in 1 .. k
      <4>1. PICK i \in 1 .. last : /\ spans[i].start <= calendar[InOrder[j]].start
                                   /\ calendar[InOrder[j]].end <= spans[i].end
        BY <3>1 DEF SpansFit
      <4> QED
        BY <1>6, <2>3, <4>1
    <3>2. CASE j = k + 1
      BY <1>4, <1>6, <2>3, <2>6, <3>2
    <3> QED
      BY <3>1, <3>2
  <2> HIDE DEF Good
  <2>11. Fit(new)
    BY <1>6, <2>3, <2>8, <2>9, <2>10
  <2> HIDE DEF Fit
  <2> QED
    BY <1>9, <2>11 DEF new
<1> QED
  BY <1>10, <1>11

\* So the spans fit when the loop has ended.
LEMMA SpansAfterFit == ASSUME CheckInit, Timely PROVE SpansFit(Merged, CheckedSessions)
<1> DEFINE T == {k \in Nat : k <= CheckedSessions => SpansFit(SpansAfter[k], k)}
<1>1. CheckedSessions \in Nat
  BY DayIsSorted
<1>2. /\ SpansAfter[0] = <<>>
      /\ \A k \in Nat : k < CheckedSessions =>
             SpansAfter[k + 1] = Merge(SpansAfter[k], InOrder[k + 1])
  <2>1. SpansAfter[0] = <<>>
    BY <1>1, SpansAfterTurns
  <2>2. ASSUME NEW k \in Nat, k < CheckedSessions
        PROVE  SpansAfter[k + 1] = Merge(SpansAfter[k], InOrder[k + 1])
    <3>1. k + 1 \in 0 .. CheckedSessions /\ k + 1 # 0 /\ (k + 1) - 1 = k
      BY <1>1, <2>2
    <3>2. SpansAfter[k + 1] = Merge(SpansAfter[(k + 1) - 1], InOrder[k + 1])
      BY <1>1, <3>1, SpansAfterTurns
    <3> QED
      BY <3>1, <3>2
  <2> QED
    BY <2>1, <2>2
<1>3. 0 \in T
  <2>1. SpansFit(<<>>, 0)
    BY DEF SpansFit
  <2> QED
    BY <1>2, <2>1
<1>4. ASSUME NEW k \in Nat, k < CheckedSessions, k \in T PROVE k + 1 \in T
  <2>1. SpansFit(SpansAfter[k], k)
    BY <1>1, <1>4
  <2>2. SpansFit(Merge(SpansAfter[k], InOrder[k + 1]), k + 1)
    BY <1>4, <2>1, MergeKeeps
  <2> QED
    BY <1>2, <1>4, <2>2
<1> HIDE DEF T
<1>5. \A k \in 0 .. CheckedSessions : k \in T
  BY <1>1, <1>3, <1>4, UpTo
<1>6. CheckedSessions \in T
  BY <1>1, <1>5
<1> QED
  BY <1>1, <1>6 DEF T, Merged

\* What the spans leave out is what no session covers.
LEMMA GapsAreFound == ASSUME CheckInit PROVE GapsReported
<1> SUFFICES ASSUME Timely, NEW h \in Hour
             PROVE  (\E gap \in Gaps : gap.start <= h /\ h < gap.end)
                    <=> /\ \E x \in Planned : calendar[x].end <= h
                        /\ \E x \in Planned : h < calendar[x].start
                        /\ ~\E x \in Planned : Covers(x, h)
  BY DEF GapsReported, Timely
<1> DEFINE n == CheckedSessions
           last == Len(Merged)
<1>1. n \in Nat /\ h \in Nat
  BY DayIsSorted, CheckAssumption DEF Hour
<1>2. \A j \in 1 .. n : InOrder[j] \in Planned
  BY DayIsSorted
<1>3. \A x \in Planned : \E j \in 1 .. n : InOrder[j] = x
  BY DayIsSorted
<1>4. \A x \in Planned : /\ calendar[x].start \in Nat /\ calendar[x].end \in Nat
                         /\ calendar[x].start <= calendar[x].end
  BY CalendarIsTyped DEF CalendarTyped, Timely
<1>5. SpansFit(Merged, n)
  BY SpansAfterFit
<1>6. last \in Nat /\ \A i \in 1 .. last : Merged[i].start \in Nat /\ Merged[i].end \in Nat
  <2>1. Merged \in Seq(SpanShape)
    BY <1>5 DEF SpansFit
  <2>2. last \in Nat /\ \A i \in 1 .. last : Merged[i] \in SpanShape
    BY <2>1, LenProperties, ElementOfSeq
  <2> QED
    BY <2>2 DEF SpanShape
<1>7. \A i \in 1 .. last : Merged[i].start <= Merged[i].end
  BY <1>5 DEF SpansFit
<1>8. \A i, j \in 1 .. last : i < j => Merged[i].end < Merged[j].start
  BY <1>5 DEF SpansFit
<1>9. \A i \in 1 .. last : (Merged[i].start <= h /\ h < Merged[i].end) =>
                               \E x \in Planned : Covers(x, h)
  BY <1>1, <1>2, <1>5 DEF SpansFit
<1>10. \A i \in 1 .. last : /\ \E x \in Planned : Merged[i].start = calendar[x].start
                            /\ \E x \in Planned : Merged[i].end = calendar[x].end
  BY <1>2, <1>5 DEF SpansFit
<1>11. \A x \in Planned : \E i \in 1 .. last : /\ Merged[i].start <= calendar[x].start
                                              /\ calendar[x].end <= Merged[i].end
  <2> SUFFICES ASSUME NEW x \in Planned
               PROVE  \E i \in 1 .. last : /\ Merged[i].start <= calendar[x].start
                                           /\ calendar[x].end <= Merged[i].end
    OBVIOUS
  <2>1. PICK j \in 1 .. n : InOrder[j] = x
    BY <1>3
  <2>2. \E i \in 1 .. last : /\ Merged[i].start <= calendar[InOrder[j]].start
                             /\ calendar[InOrder[j]].end <= Merged[i].end
    BY <1>5 DEF SpansFit
  <2> QED
    BY <2>1, <2>2
<1>12. (\E gap \in Gaps : gap.start <= h /\ h < gap.end)
       <=> \E i \in 1 .. last - 1 : Merged[i].end <= h /\ h < Merged[i + 1].start
  <2>1. \A i \in 1 .. last - 1 : /\ Span(Merged[i].end, Merged[i + 1].start).start = Merged[i].end
                                 /\ Span(Merged[i].end, Merged[i + 1].start).end = Merged[i + 1].start
    BY DEF Span
  <2>2. Gaps = {Span(Merged[i].end, Merged[i + 1].start) : i \in 1 .. last - 1}
    BY DEF Gaps
  <2> HIDE DEF last
  <2>3. ASSUME NEW gap \in Gaps, gap.start <= h, h < gap.end
        PROVE  \E i \in 1 .. last - 1 : Merged[i].end <= h /\ h < Merged[i + 1].start
    BY <2>1, <2>2, <2>3
  <2>4. ASSUME NEW i \in 1 .. last - 1, Merged[i].end <= h, h < Merged[i + 1].start
        PROVE  \E gap \in Gaps : gap.start <= h /\ h < gap.end
    <3>1. Span(Merged[i].end, Merged[i + 1].start) \in Gaps
      BY <2>2
    <3> QED
      BY <2>1, <2>4, <3>1
  <2> QED
    BY <2>3, <2>4
<1> HIDE DEF last, n
<1>13. ASSUME NEW i \in 1 .. last - 1, Merged[i].end <= h, h < Merged[i + 1].start
       PROVE  /\ \E x \in Planned : calendar[x].end <= h
              /\ \E x \in Planned : h < calendar[x].start
              /\ ~\E x \in Planned : Covers(x, h)
  <2>1. i \in 1 .. last /\ i + 1 \in 1 .. last
    BY <1>6
  <2>2. ASSUME NEW x \in Planned, Covers(x, h) PROVE FALSE
    <3>1. PICK l \in 1 .. last : /\ Merged[l].start <= calendar[x].start
                                 /\ calendar[x].end <= Merged[l].end
      BY <1>11
    <3>2. calendar[x].start <= h /\ h < calendar[x].end
      BY <2>2 DEF Covers
    <3>3. Merged[l].start <= h /\ h < Merged[l].end
      BY <1>1, <1>4, <1>6, <3>1, <3>2
    <3>4. CASE l <= i
      <4>1. l = i \/ Merged[l].end < Merged[i].start
        BY <1>6, <1>8, <2>1, <3>4
      <4>2. Merged[i].start <= Merged[i].end
        BY <1>7, <2>1
      <4> QED
        BY <1>1, <1>6, <1>13, <2>1, <3>3, <4>1, <4>2
    <3>5. CASE i + 1 <= l
      <4>1. l = i + 1 \/ Merged[i + 1].end < Merged[l].start
        BY <1>6, <1>8, <2>1, <3>5
      <4>2. Merged[i + 1].start <= Merged[i + 1].end
        BY <1>7, <2>1
      <4> QED
        BY <1>1, <1>6, <1>13, <2>1, <3>3, <4>1, <4>2
    <3> QED
      BY <1>6, <3>4, <3>5
  <2> QED
    BY <1>10, <1>13, <2>1, <2>2
<1>14. ASSUME NEW x \in Planned, calendar[x].end <= h, NEW y \in Planned, h < calendar[y].start,
              \A z \in Planned : ~Covers(z, h)
       PROVE  \E i \in 1 .. last - 1 : Merged[i].end <= h /\ h < Merged[i + 1].start
  <2> DEFINE F == {i \in 1 .. last : h < Merged[i].start}
  <2>1. \A i \in 1 .. last : i \notin F => Merged[i].end <= h
    BY <1>1, <1>6, <1>9, <1>14
  <2>2. F # {}
    <3>1. PICK l \in 1 .. last : /\ Merged[l].start <= calendar[y].start
                                 /\ calendar[y].end <= Merged[l].end
      BY <1>11
    <3>2. h < Merged[l].end
      BY <1>1, <1>4, <1>6, <1>14, <3>1
    <3>3. l \in F
      BY <1>1, <1>6, <2>1, <3>2
    <3> QED
      BY <3>3
  <2>3. F \subseteq Nat /\ \A i \in F : i \in 1 .. last /\ h < Merged[i].start
    BY <1>6
  <2>4. \A i \in 1 .. last : h < Merged[i].start => i \in F
    OBVIOUS
  <2> HIDE DEF F
  <2>5. PICK m \in F : \A i \in F : m <= i
    BY <2>2, <2>3, LeastOf
  <2>6. m # 1
    <3> SUFFICES ASSUME m = 1 PROVE FALSE
      OBVIOUS
    <3>1. PICK l \in 1 .. last : /\ Merged[l].start <= calendar[x].start
                                 /\ calendar[x].end <= Merged[l].end
      BY <1>11
    <3>2. Merged[l].start <= h
      BY <1>1, <1>4, <1>6, <1>14, <3>1
    <3>3. l # 1
      BY <1>1, <1>6, <2>3, <3>2
    <3>4. 1 \in 1 .. last /\ Merged[1].end < Merged[l].start
      BY <1>6, <1>8, <3>3
    <3>5. Merged[1].start <= Merged[1].end /\ h < Merged[1].start
      BY <1>7, <2>3, <3>4
    <3> QED
      BY <1>1, <1>6, <3>2, <3>4, <3>5
  <2>7. m - 1 \in 1 .. last - 1 /\ m - 1 \in 1 .. last /\ (m - 1) + 1 = m /\ m - 1 \notin F
    BY <1>6, <2>3, <2>5, <2>6
  <2> QED
    BY <2>1, <2>3, <2>7
<1> QED
  BY <1>12, <1>13, <1>14

\* The check of any day is right.
LEMMA CheckIsRight == ASSUME CheckInit PROVE ProgramChecked
  BY GapsAreFound, OverlapsAreFound DEF ProgramChecked

-------------------------------------------------------------------------------
(* The run: one of its parts moves, the others are as they began. *)

\* The sessions of the day do not change under the check, so it is right of every
\* day: it lists exactly the overlaps there are and, if no session ends before it
\* starts, exactly the gaps.
THEOREM DayIsChecked == ProgramSpec => []DayChecked
<1>1. ProgramInit => CheckInit
  BY DEF ProgramInit
<1>2. CheckInit /\ [ProgramNext]_<<part, vars, scheduleVars, calendar>> => CheckInit'
  BY DEF CheckInit, ProgramNext
<1>3. CheckInit => DayChecked
  BY CheckIsRight DEF DayChecked
<1> QED
  BY <1>1, <1>2, <1>3, PTL DEF ProgramSpec

\* The run goes through behaviours of the slots' and the schedule's own
\* specifications: what is proved of them holds of the run.
THEOREM ProgramFollowsParts == ProgramSpec => Spec /\ ScheduleSpec
<1>1. ProgramInit => Init /\ ScheduleInit
  BY DEF ProgramInit
<1>2. [ProgramNext]_<<part, vars, scheduleVars, calendar>> => [Next]_vars /\ [ScheduleNext]_scheduleVars
  BY DEF ProgramNext
<1> QED
  BY <1>1, <1>2, PTL DEF ProgramSpec, Spec, ScheduleSpec

\* Rooms are booked once, blocks hold together, and the check is right of every day.
THEOREM ProgramKeepsAll == ProgramSpec => [](NoDoubleBooking /\ BlocksHold /\ DayChecked)
  BY ProgramFollowsParts, RoomsAreBookedOnce, BlocksStayTogether, DayIsChecked, PTL
===============================================================================
