SPECIFICATION Spec
CONSTANTS
  MaxMsg = 2
  ChunkLimit = 3
  LoopLimit = 3
  HugeSize = 10
  Totals <- SomeTotals
  Iovecs <- SomeIovecs
INVARIANTS NeverPastEnd CopyInBounds Tiles OnlyLastTruncated BufferSubmitted VectorPositions VectorSubmitted
CHECK_DEADLOCK FALSE
