--------------------------- MODULE MCTcpServerInit ---------------------------
(* taosInitTcpServer asked for three or four I/O threads, so that a       *)
(* failure can leave none, one, or several of them started.               *)
EXTENDS TcpServerInit

ThreeThreads == 0..2
FourThreads  == 0..3
=============================================================================
