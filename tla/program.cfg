\* Four slots, orders outside 1..4 on both sides, a limit that may drop; three
\* sessions, one block, one room and three minutes; days of three sessions.
CONSTANTS
    i1 = i1
    i2 = i2
    i3 = i3
    i4 = i4
    Slot = {i1, i2, i3, i4}
    RequestedOrder <- Orders
    RequestedSlots = {0, 2, 4}
    MaxOrder = 7
    Session = {x2, x3, x4}
    Group = {g1}
    Room = {ra}
    Day = {d1}
    LastMinute = 2
    Count = {2, 3}
    MaxRequests = 3
    MaxAtOnce = 2
    Planned = {y1, y2, y3}
    LastHour = 3
    Parallel = {g1}
SYMMETRY SlotSymmetry
SPECIFICATION ProgramSpec
CHECK_DEADLOCK FALSE
INVARIANTS
    DistinctOrders
    NoDoubleBooking
    BlocksHold
    DayChecked
PROPERTIES
    GapHasCause
    ListKept
