\* Two messages: the app holds a connection only after the first upcall,
\* so a close can race the read of the second, or the broken-link notice.
CONSTANTS
  Workers <- OneThread
  Conns <- TwoConns
  NULL = NULL
  MaxMsgs = 2

SPECIFICATION Spec
PROPERTY
  LifecycleRefined
