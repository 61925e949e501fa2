\* Two dispatches to one stored room.
SPECIFICATION HandlesSpec
CONSTANTS
  Rooms = {r1, r2}
  Stored = {r1, r2}
  NoRoom = NoRoom
  Tasks = {t1, t2}
  Kinds = {"dispatch"}
  MaxHandles = 1
  MaxMade = 2
INVARIANT UsesOpenedRoom
CHECK_DEADLOCK FALSE
