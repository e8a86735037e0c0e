SPECIFICATION TypedSpec
CONSTANTS
  UserKeys = {"A", "N5", "ShiftLeft", "AltLeft", "AltRight", "Pause"}
  MaxEvents = 4
  Slots = 2
  MaxReads = 4
INVARIANTS
  TypedAsMeant
  ListShape
  ReadAsMeant
  OnceUntilWrap
PROPERTIES
  AllRead
\* A behaviour ends when the user has made MaxEvents moves and main() MaxReads calls.
CHECK_DEADLOCK FALSE
