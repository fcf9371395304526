SPECIFICATION Spec
CONSTANTS
  Parts = {"queue"}
  Size = 4
  MaxBatch = 9
  MaxItems = 6
  UsesFlow = TRUE
  ReaderMayBlock = TRUE
  Writers = {1, 2}
  SoftLimit = 2
  MaxReads = 2
  MaxWritten = 4
  Sources = {a, b}
  Sinks = {x, y}
  None = None
  NoSource = NoSource
  MaxWrites = 2
  Callbacks = {a, b, c}
  Triggers = {x, y}
  NoTrigger = NoTrigger
  NoCallback = NoCallback
  Attempts = 2
INVARIANT WriterNotForgotten
CHECK_DEADLOCK FALSE
