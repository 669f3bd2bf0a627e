CONSTANTS
  Workers <- TwoThreads
  Conns <- TwoConns
  NULL = NULL
  MaxMsgs = 1

SPECIFICATION Spec
INVARIANTS
  TypeOK
  WakeEventNeverDispatched
  DispatchOnlyLive
  BrokenLinkOnce
PROPERTIES
  CleanupTerminates
  HangupReleased
