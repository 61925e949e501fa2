\* One update while the phone reads the room.
SPECIFICATION UpdatesSpec
CONSTANT MaxVersion = 2
INVARIANT ScreensCatchUp
CHECK_DEADLOCK FALSE
