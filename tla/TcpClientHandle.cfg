CONSTANTS
  Workers <- ClientThread
  Conns <- TwoConns
  NULL = NULL
  MaxMsgs = 1

SPECIFICATION Spec
INVARIANT AppHandlesLive
