----------------------------- MODULE MCTcpServer -----------------------------
(* Instances of TcpServer for TLC.  Thread indexes must be 0..n-1 (the    *)
(* accept thread computes threadId % numOfThreads), so they are numbers,  *)
(* and so are the FdObj addresses (the acceptor takes the least unused    *)
(* one, which removes the symmetric choices).                             *)
EXTENDS TcpServer

OneThread  == {0}
TwoThreads == 0..1
TwoConns   == 1..2
OneConn    == {1}
=============================================================================
