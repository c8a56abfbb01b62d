CONSTANTS
  MaxData = 4
  MaxChunks = 2
  BufferRows = 2
  QueueSize = 2
  BinaryRows = FALSE
  ClientCursors = {"c1"}
  ServerCursors = {"s1", "a1"}
  AsyncCursors = {"a1"}
  Uses <- UsesDef
  MaxRows = 2
  MaxNotifies = 2
  MaxDrift = 1
SPECIFICATION Spec
INVARIANTS StatementsTypeOK CopyKeepsData LeavesNothingBehind PositionsAgree NotifiedInOrder
PROPERTIES CopyReturns
\* A COPY block that was left, and a connection whose cursors are closed, stop.
CHECK_DEADLOCK FALSE
