CONSTANTS
  Workers <- OneThread
  Conns <- TwoConns
  NULL = NULL
  MaxMsgs = 1

SPECIFICATION Spec
INVARIANT
  CleanupJoinsAcceptor
