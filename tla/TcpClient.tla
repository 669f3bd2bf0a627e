------------------------------ MODULE TcpClient ------------------------------
(***************************************************************************)
(* The TCP client of src/src/rpc/src/rpcTcp.c: one I/O thread (TcpWorker)  *)
(* created by taosInitTcpClient, the application thread that opens         *)
(* connections with taosOpenTcpClientConnection and closes them, and       *)
(* taosCleanUpTcpClient.                                                    *)
(*                                                                         *)
(* taosOpenTcpClientConnection calls taosMallocFdObj (epoll_ctl ADD, then  *)
(* the link under the mutex) and only afterwards writes thandle, port and  *)
(* ip into the FdObj and returns it to the caller as its chandle.         *)
(*                                                                         *)
(* The upper layer neither opens a connection while it cleans the client   *)
(* up nor uses the client afterwards: the connector and the cleanup do not *)
(* overlap.                                                                *)
(***************************************************************************)
EXTENDS TcpWorker, FiniteSetsExt

ASSUME Workers = {0}

VARIABLES
  cpc,     \* the connector: "idle", "link" (between epoll_ctl ADD and the
           \* link), "set" (taosMallocFdObj has returned)
  cconn,   \* the FdObj the connector is creating
  ccl      \* taosCleanUpTcpClient: "idle", "stop", "wake", "join", "done"

vars == <<workerVars, cpc, cconn, ccl>>

(* taosInitTcpClient has created the thread: mutex, fd_event, pollFd.     *)
Init ==
  /\ WorkerInit
  /\ cpc = "idle"
  /\ cconn = NULL
  /\ ccl = "idle"

-----------------------------------------------------------------------------
(* taosOpenTcpClientConnection *)

openFixed == <<closedByApp, stop, evAdded, wpc, batch, rcpt, inbuf, trunc,
               sent, peer, wrShut, notified, released, ccl>>

(* taosOpenTcpClientSocket, then taosMallocFdObj's calloc and epoll_ctl   *)
(* ADD.  A failed connect, calloc or epoll_ctl returns NULL to the caller *)
(* (the socket is closed).                                                *)
OpenTcpClientConnection ==
  /\ cpc = "idle"
  /\ ccl = "idle"
  /\ \E c \in Conns : fdobj[c] = "none"
  /\ LET c == Min({x \in Conns : fdobj[x] = "none"}) IN
       \/ /\ fdobj' = [fdobj EXCEPT ![c] = "failed"]
          /\ UNCHANGED <<cpc, cconn, owner>>
       \/ /\ MallocFdObj(c, 0)
          /\ cconn' = c
          /\ cpc' = "link"
  /\ UNCHANGED <<addrSet, next, prev, head, numOfFds, appHolds, openFixed>>

ClientLinkFdObj ==
  /\ cpc = "link"
  /\ LinkIntoList(cconn)
  /\ cpc' = "set"
  /\ UNCHANGED <<cconn, fdobj, owner, addrSet, appHolds, openFixed>>

(* pFdObj->thandle = thandle; port; ip; return pFdObj: from here on the   *)
(* upper layer holds it as the chandle of its connection.                 *)
SetClientHandle ==
  /\ cpc = "set"
  /\ addrSet' = [addrSet EXCEPT ![cconn] = TRUE]
  /\ appHolds' = [appHolds EXCEPT ![cconn] = TRUE]
  /\ cpc' = "idle"
  /\ cconn' = NULL
  /\ UNCHANGED <<fdobj, owner, next, prev, head, numOfFds, openFixed>>

ConnectorStep == ClientLinkFdObj \/ SetClientHandle

-----------------------------------------------------------------------------
(* taosCleanUpTcpClient: taosStopTcpThread on the one thread, then tfree. *)

cleanFixed == <<owner, closedByApp, addrSet, wpc, batch, rcpt, inbuf, trunc,
                sent, peer, wrShut, appHolds, notified, cpc, cconn>>

(* stop = true (the assert that it was false holds: cleanup runs once). *)
ClientStop ==
  /\ ccl = "idle"
  /\ cpc = "idle"
  /\ stop' = [stop EXCEPT ![0] = TRUE]
  /\ ccl' = "wake"
  /\ UNCHANGED <<evAdded, fdobj, head, next, prev, numOfFds, released, cleanFixed>>

(* Variant: the fd_event is never added to the epoll set. *)
ClientWakeLost ==
  /\ ccl = "wake"
  /\ ccl' = "join"
  /\ UNCHANGED <<stop, evAdded, fdobj, head, next, prev, numOfFds, released,
                 cleanFixed>>

(* epoll_ctl(pollFd, EPOLL_CTL_ADD, fd_event): the eventfd is readable. *)
ClientWake ==
  /\ ccl = "wake"
  /\ evAdded' = [evAdded EXCEPT ![0] = TRUE]
  /\ ccl' = "join"
  /\ UNCHANGED <<stop, fdobj, head, next, prev, numOfFds, released, cleanFixed>>

(* Variant: taosReleaseTcpThreadResource without waiting in pthread_join. *)
ClientJoinNoWait ==
  /\ ccl = "join"
  /\ ReleaseTcpThreadResource(0)
  /\ ccl' = "done"
  /\ UNCHANGED <<stop, cleanFixed>>

(* pthread_join, then taosReleaseTcpThreadResource drains the list. *)
ClientJoinAndRelease ==
  /\ ccl = "join"
  /\ wpc[0] = "exited"
  /\ ReleaseTcpThreadResource(0)
  /\ ccl' = "done"
  /\ UNCHANGED <<stop, cleanFixed>>

CleanUpTcpClient == ClientWake \/ ClientJoinAndRelease

(* The client object is freed; nothing of it runs any more. *)
Done == ccl = "done" /\ UNCHANGED vars

-----------------------------------------------------------------------------
Next ==
  \/ WorkerStep(0) /\ UNCHANGED <<cpc, cconn, ccl>>
  \/ \E c \in Conns : PeerStep(c) /\ UNCHANGED <<cpc, cconn, ccl>>
  \/ \E c \in Conns : CloseTcpConnection(c) /\ UNCHANGED <<cpc, cconn, ccl>>
  \/ OpenTcpClientConnection
  \/ ConnectorStep
  \/ ClientStop
  \/ CleanUpTcpClient
  \/ Done

(* The I/O thread runs whenever it can, taosOpenTcpClientConnection runs  *)
(* to its end once called, and so does taosCleanUpTcpClient; a peer that  *)
(* has written part of a message writes the rest.  The application need   *)
(* not open, close or clean up anything.                                  *)
Fairness ==
  /\ WF_vars(WorkerStep(0) /\ UNCHANGED <<cpc, cconn, ccl>>)
  /\ WF_vars(ConnectorStep)
  /\ WF_vars(CleanUpTcpClient)
  /\ \A c \in Conns : WF_vars(PeerFinishWrite(c) /\ UNCHANGED <<cpc, cconn, ccl>>)

Spec == Init /\ [][Next]_vars /\ Fairness

-----------------------------------------------------------------------------
(* taosCleanUpTcpClient returns: the I/O thread leaves epoll_wait once    *)
(* fd_event is added, sees stop, and is joined.                           *)
ClientCleanupTerminates ==
  (ccl # "idle") ~> (ccl = "done")
=============================================================================
