CONSTANTS
  Conns <- TwoConns
  W <- IntBits
  HeadLen <- HeadSize
  Overhead <- OverheadSize
  MaxAlloc <- AllocLimit

SPECIFICATION Spec
INVARIANTS
  CancelLosesAtMostOne
  WritesInBuffer
\* The cleanup thread may block for ever on the mutex of a cancelled
\* thread (run stop_cancel_hang): that state has no successor.
CHECK_DEADLOCK FALSE
