--------------------------- MODULE MCTcpStopCancel ---------------------------
EXTENDS TcpStopCancel

(* Two FdObjs: one for the I/O thread to be freeing when it is cancelled, *)
(* one left in the list for the drain.                                    *)
TwoConns == {1, 2}

(* An 8-bit int, so that every value of msgLen is tried; a header and an *)
(* overhead small against the range keep each boundary (msgLen below     *)
(* headLen, negative, near the maximum) represented.                     *)
IntBits == 8
HeadSize == 6
OverheadSize == 10
(* Any size an int can ask for can be allocated. *)
AllocLimit == 2^IntBits
=============================================================================
