CONSTANTS
  Conns <- TwoConns
  W <- IntBits
  HeadLen <- HeadSize
  Overhead <- OverheadSize
  MaxAlloc <- AllocLimit

SPECIFICATION Spec
PROPERTY StopTerminates
CHECK_DEADLOCK FALSE
