CONSTANTS
  p1 = p1
  p2 = p2
  b1 = b1
  b2 = b2
  b3 = b3
  b4 = b4
  Processors = {p1, p2}
  Buffers = {b1, b2, b3, b4}
  NoBuffer = NoBuffer
  MaxQueueSize = 1
SPECIFICATION Spec
INVARIANTS
  TypeOK
  BufferHasOneOwner
  QueueSizeAccounting
  StopEmptiesQueue
PROPERTIES
  QueuedIsHandled
  ReaderEnds
