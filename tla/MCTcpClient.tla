----------------------------- MODULE MCTcpClient -----------------------------
(* Instances of TcpClient for TLC: the client has one I/O thread, index 0; *)
(* FdObj addresses are numbers, taken least unused first.                  *)
EXTENDS TcpClient

ClientThread == {0}
TwoConns     == 1..2
=============================================================================
