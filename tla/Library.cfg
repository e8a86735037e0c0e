SPECIFICATION Spec
CONSTANTS
  Documents <- MCDocuments
  Strays <- MCStrays
  Digits <- MCDigits
  Letters <- MCLetters
  MaxLetters = 3
  MaxEdits = 4
  AtZero <- MCAtZero
  Width = 7
  Height = 5
  Pitch = 8
  GlyphWidth = 2
  GlyphHeight = 2
  Keys <- MCKeys
  Prompt <- MCPrompt
  Answers <- MCAnswers
  MaxKeys = 6
  Words = 1024
  Formats <- MCFormats
  Dumps <- MCDumps
  LineBytes = 16
  FirstCapacity = 2
  MapKeys = {"a", "b", "c"}
  Values = {1, 2}
  MaxSize = 5
  Handles = {"p", "q", "r"}
  Whole = {"whole"}
  Tiny = {"tiny"}
  MaxOps = 6
  Bytes <- MCBytes
  Cells = 4
  LongBits = 6
  FrameWidth = 5
  FrameHeight = 4
  Shapes <- MCShapes
  Places = {1, 2}
  Counts = 8
  Leftovers = {0, 2, 7}
  MaxWindows = 2
  MaxObjects = 5
  MaxCalls = 5
  TextWidth = 2
  TextHeight = 3
  Drawings <- MCDrawings
  Replies <- MCReplies
  FifoRoom = 2
  Limits = {0, 1, 3}
  NL = 10
INVARIANTS
  FontRight
  
  
  OutputRight
  ContainersRight
  WindowsRight
PROPERTIES
  FontEnds
\* A behaviour ends with the constructor, or after as many calls as the bounds allow.
CHECK_DEADLOCK FALSE
