--------------------------- MODULE TcpConnLifecycle ---------------------------
(***************************************************************************)
(* What the TCP transport of src/src/rpc/src/rpcTcp.c promises the upper  *)
(* layer about each connection (SFdObj), stated without threads, lists   *)
(* or epoll: a connection is opened once and closed once; the upper       *)
(* layer is told of a broken link only for an open connection it has not *)
(* closed itself, and at most once; a message is handed to the upper     *)
(* layer only for an open connection it has not closed, so a close and a *)
(* hand-over of the same connection never overlap (spec 4.4: a frame read *)
(* while the close happens is discarded); the upper layer closes only a  *)
(* connection that is still open, and only once.                          *)
(***************************************************************************)
CONSTANT Conns

VARIABLES
  conn,       \* "none", "open", "closed"
  notified,   \* the upper layer has been told the link is broken
  appClosed,  \* the upper layer has closed the connection
  handing     \* a message of the connection is being handed to the upper layer

lifecycleVars == <<conn, notified, appClosed, handing>>

LInit ==
  /\ conn = [c \in Conns |-> "none"]
  /\ notified = [c \in Conns |-> FALSE]
  /\ appClosed = [c \in Conns |-> FALSE]
  /\ handing = [c \in Conns |-> FALSE]

(* A connection is created, or fails to be. *)
Open(c) ==
  /\ conn[c] = "none"
  /\ conn' \in {[conn EXCEPT ![c] = s] : s \in {"open", "closed"}}
  /\ UNCHANGED <<notified, appClosed, handing>>

(* The upper layer closes a connection it holds, between hand-overs. *)
AppClose(c) ==
  /\ conn[c] = "open"
  /\ ~appClosed[c]
  /\ ~handing[c]
  /\ appClosed' = [appClosed EXCEPT ![c] = TRUE]
  /\ UNCHANGED <<conn, notified, handing>>

(* A message of an open connection the upper layer has not closed is     *)
(* handed to it.                                                           *)
Deliver(c) ==
  /\ conn[c] = "open"
  /\ ~appClosed[c]
  /\ ~handing[c]
  /\ handing' = [handing EXCEPT ![c] = TRUE]
  /\ UNCHANGED <<conn, notified, appClosed>>

(* The upper layer has taken the message; when it declines the connection *)
(* the transport closes it at once.                                       *)
Delivered(c) ==
  /\ handing[c]
  /\ handing' = [handing EXCEPT ![c] = FALSE]
  /\ conn' \in {conn, [conn EXCEPT ![c] = "closed"]}
  /\ UNCHANGED <<notified, appClosed>>

(* The link breaks: the upper layer is told, and the connection closed. *)
ReportBroken(c) ==
  /\ conn[c] = "open"
  /\ ~appClosed[c]
  /\ ~notified[c]
  /\ notified' = [notified EXCEPT ![c] = TRUE]
  /\ conn' = [conn EXCEPT ![c] = "closed"]
  /\ UNCHANGED <<appClosed, handing>>

(* Open connections are closed without a notification: after the upper  *)
(* layer closed them, when it declines a connection, or all of a thread's *)
(* at shutdown.                                                            *)
Release(S) ==
  /\ S # {}
  /\ \A c \in S : conn[c] = "open"
  /\ conn' = [c \in Conns |-> IF c \in S THEN "closed" ELSE conn[c]]
  /\ UNCHANGED <<notified, appClosed, handing>>

LNext ==
  \/ \E c \in Conns :
       Open(c) \/ AppClose(c) \/ Deliver(c) \/ Delivered(c) \/ ReportBroken(c)
  \/ \E S \in SUBSET Conns : Release(S)

LSpec == LInit /\ [][LNext]_lifecycleVars
=============================================================================
