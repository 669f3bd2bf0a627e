------------------------------ MODULE TcpServer ------------------------------
(***************************************************************************)
(* The TCP server of src/src/rpc/src/rpcTcp.c after taosInitTcpServer has *)
(* started every I/O thread and the accept thread:                         *)
(*                                                                         *)
(*  - the accept thread taosAcceptTcpConnection: open the listening        *)
(*    socket, accept, taosMallocFdObj on thread threadId (round robin),    *)
(*    record the peer address, exit on EINVAL after shutdown(SHUT_RD);     *)
(*  - the I/O threads, their FdObj lists and the environment (TcpWorker);  *)
(*  - taosCleanUpTcpServer on the application thread: shut the listening   *)
(*    socket down and join the accept thread, then taosStopTcpThread on    *)
(*    every I/O thread in turn (stop, wake through fd_event, join,         *)
(*    taosReleaseTcpThreadResource).                                       *)
(*                                                                         *)
(* taosMallocFdObj is two steps of the accept thread: epoll_ctl ADD makes *)
(* the FdObj visible to its I/O thread, and only then is it linked into    *)
(* the list under the mutex; the peer address is written after it returns. *)
(***************************************************************************)
EXTENDS TcpWorker, FiniteSetsExt

NumThreads == Cardinality(Workers)

VARIABLES
  acc,         \* accept thread: "open", "accept", "link", "addr", "exited"
  accConn,     \* the FdObj taosMallocFdObj is creating
  srvFd,       \* pServerObj->fd != -1 (taosOpenTcpServerSocket succeeded)
  listenShut,  \* shutdown(pServerObj->fd, SHUT_RD) has been called
  rr,          \* threadId, the round-robin index of the accept thread
  cl,          \* taosCleanUpTcpServer: "idle", "joinAcc", "stop", "wake",
               \* "join", "done"
  ci,          \* the thread taosCleanUpTcpServer is stopping
  srvStop      \* pServerObj->stop

acceptVars == <<acc, accConn, srvFd, rr>>
cleanVars  == <<cl, ci, srvStop, listenShut>>
(* SServerObj: fd is srvFd, stop is srvStop, thread is the accept thread  *)
(* (acc), pThreadObj[numOfThreads] the I/O threads of TcpWorker; ip, port, *)
(* label and shandle are constant and left out.                           *)
vars == <<workerVars, acceptVars, cleanVars>>

Init ==
  /\ WorkerInit
  /\ acc = "open"
  /\ accConn = NULL
  /\ srvFd = FALSE
  /\ listenShut = FALSE
  /\ rr = 0
  /\ cl = "idle"
  /\ ci = 0
  /\ srvStop = FALSE

-----------------------------------------------------------------------------
(* taosAcceptTcpConnection *)

acceptFixed == <<closedByApp, stop, evAdded, wpc, batch, rcpt, inbuf,
                 trunc, sent, peer, wrShut, appHolds, notified, released,
                 cleanVars>>

(* pServerObj->fd = taosOpenTcpServerSocket(...); return on failure. *)
OpenServerSocket ==
  /\ acc = "open"
  /\ \/ srvFd' = TRUE /\ acc' = "accept"
     \/ acc' = "exited" /\ UNCHANGED srvFd
  /\ UNCHANGED <<accConn, rr, fdobj, owner, addrSet, next, prev, head,
                 numOfFds, acceptFixed>>

(* Variant: every accept failure treated as transient (no EINVAL exit). *)
AcceptShutdownRetry ==
  /\ acc = "accept"
  /\ listenShut
  /\ UNCHANGED <<acc, accConn, srvFd, rr, fdobj, owner, addrSet, next, prev,
                 head, numOfFds, acceptFixed>>

(* accept fails with EINVAL once the socket is shut down: close it, exit. *)
AcceptShutdown ==
  /\ acc = "accept"
  /\ listenShut
  /\ acc' = "exited"
  /\ UNCHANGED <<accConn, srvFd, rr, fdobj, owner, addrSet, next, prev,
                 head, numOfFds, acceptFixed>>

(* Variant: threadId++ without the wrap around numOfThreads. *)
NextThreadIdNoWrap == rr + 1

(* threadId++; threadId = threadId % numOfThreads. *)
NextThreadId == (rr + 1) % NumThreads

(* A client connects: accept returns a new socket for thread threadId.    *)
(* If calloc or epoll_ctl fails, taosMallocFdObj returns NULL, the socket *)
(* is closed and threadId still advances.                                 *)
AcceptConnection ==
  /\ acc = "accept"
  /\ ~listenShut
  /\ \E c \in Conns : fdobj[c] = "none"
  /\ LET c == Min({x \in Conns : fdobj[x] = "none"}) IN
       \/ /\ fdobj' = [fdobj EXCEPT ![c] = "failed"]
          /\ rr' = NextThreadId
          /\ UNCHANGED <<acc, accConn, owner>>
       \/ /\ MallocFdObj(c, rr)
          /\ accConn' = c
          /\ acc' = "link"
          /\ UNCHANGED rr
  /\ UNCHANGED <<srvFd, addrSet, next, prev, head, numOfFds, acceptFixed>>

(* The rest of taosMallocFdObj on the accept thread. *)
LinkFdObj ==
  /\ acc = "link"
  /\ LinkIntoList(accConn)
  /\ acc' = "addr"
  /\ UNCHANGED <<accConn, srvFd, rr, fdobj, owner, addrSet, acceptFixed>>

(* Back in the accept loop: pFdObj->ip/port = caddr, threadId advances. *)
SetPeerAddr ==
  /\ acc = "addr"
  /\ addrSet' = [addrSet EXCEPT ![accConn] = TRUE]
  /\ rr' = NextThreadId
  /\ accConn' = NULL
  /\ acc' = "accept"
  /\ UNCHANGED <<srvFd, fdobj, owner, next, prev, head, numOfFds, acceptFixed>>

AcceptorStep ==
  OpenServerSocket \/ AcceptShutdown \/ AcceptConnection \/ LinkFdObj
  \/ SetPeerAddr

-----------------------------------------------------------------------------
(* taosCleanUpTcpServer and taosStopTcpThread *)

cleanFixed == <<owner, closedByApp, addrSet, stop, evAdded, wpc, batch, rcpt,
                inbuf, trunc, sent, peer, wrShut, appHolds, notified,
                acceptVars>>

(* stop = true; if fd != -1, shutdown(fd, SHUT_RD) and join the accept   *)
(* thread.                                                                *)
CleanUpStart ==
  /\ cl = "idle"
  /\ srvStop' = TRUE
  /\ IF srvFd
     THEN listenShut' = TRUE /\ cl' = "joinAcc"
     ELSE UNCHANGED listenShut /\ cl' = "stop"
  /\ UNCHANGED <<ci, fdobj, head, next, prev, numOfFds, released, cleanFixed>>

JoinAcceptor ==
  /\ cl = "joinAcc"
  /\ acc = "exited"
  /\ cl' = "stop"
  /\ UNCHANGED <<ci, srvStop, listenShut, fdobj, head, next, prev, numOfFds,
                 released, cleanFixed>>

(* Variant: fd_event added before stop is set. *)
StopTcpThreadWakeFirst ==
  \/ /\ cl = "stop"
     /\ evAdded' = [evAdded EXCEPT ![ci] = TRUE]
     /\ cl' = "wake"
     /\ UNCHANGED stop
  \/ /\ cl = "wake"
     /\ stop' = [stop EXCEPT ![ci] = TRUE]
     /\ cl' = "join"
     /\ UNCHANGED evAdded

(* taosStopTcpThread(ci): set stop, then epoll_ctl ADD fd_event (the      *)
(* eventfd was created with value 1, so it is readable at once).          *)
StopTcpThread ==
  \/ /\ cl = "stop"
     /\ stop' = [stop EXCEPT ![ci] = TRUE]
     /\ cl' = "wake"
     /\ UNCHANGED evAdded
  \/ /\ cl = "wake"
     /\ evAdded' = [evAdded EXCEPT ![ci] = TRUE]
     /\ cl' = "join"
     /\ UNCHANGED stop

(* Variant: taosReleaseTcpThreadResource without waiting in pthread_join. *)
JoinAndReleaseNoJoin ==
  /\ cl = "join"
  /\ ReleaseTcpThreadResource(ci)
  /\ ci' = ci + 1
  /\ cl' = IF ci + 1 = NumThreads THEN "done" ELSE "stop"
  /\ UNCHANGED <<srvStop, listenShut, owner, closedByApp, addrSet, stop,
                 wpc, batch, rcpt, inbuf, trunc, sent, peer, wrShut,
                 appHolds, notified, acceptVars>>

(* pthread_join, taosReleaseTcpThreadResource, pthread_mutex_destroy;     *)
(* then the next thread.                                                  *)
JoinAndRelease ==
  /\ cl = "join"
  /\ wpc[ci] = "exited"
  /\ ReleaseTcpThreadResource(ci)
  /\ ci' = ci + 1
  /\ cl' = IF ci + 1 = NumThreads THEN "done" ELSE "stop"
  /\ UNCHANGED <<srvStop, listenShut, owner, closedByApp, addrSet, stop,
                 wpc, batch, rcpt, inbuf, trunc, sent, peer, wrShut,
                 appHolds, notified, acceptVars>>

CleanUpStep ==
  \/ JoinAcceptor
  \/ StopTcpThread /\ UNCHANGED <<ci, srvStop, listenShut, fdobj, head, next,
                                  prev, numOfFds, released, owner, closedByApp,
                                  addrSet, wpc, batch, rcpt, inbuf, trunc,
                                  sent, peer, wrShut, appHolds, notified,
                                  acceptVars>>
  \/ JoinAndRelease

(* The server object is freed; nothing of it runs any more. *)
Done == cl = "done" /\ UNCHANGED vars

-----------------------------------------------------------------------------
(* The upper layer closes the connections it holds before it calls      *)
(* taosCleanUpTcpServer, never after: the drain frees them without an    *)
(* upcall, so a handle kept past cleanup is dangling.                     *)
AppClose(c) == cl = "idle" /\ CloseTcpConnection(c)

Next ==
  \/ \E w \in Workers : WorkerStep(w) /\ UNCHANGED <<acceptVars, cleanVars>>
  \/ \E c \in Conns : PeerStep(c) /\ UNCHANGED <<acceptVars, cleanVars>>
  \/ \E c \in Conns : AppClose(c) /\ UNCHANGED <<acceptVars, cleanVars>>
  \/ AcceptorStep
  \/ CleanUpStart
  \/ CleanUpStep
  \/ Done

(* Every thread that can run eventually does: the I/O threads, the accept *)
(* thread (except that clients need not connect) and the cleanup once it  *)
(* has been called.  A peer that has written part of a message writes the *)
(* rest (one send() per message).  The application need not close a      *)
(* connection, nor ever call taosCleanUpTcpServer.                        *)
Fairness ==
  /\ \A w \in Workers : WF_vars(WorkerStep(w) /\ UNCHANGED <<acceptVars, cleanVars>>)
  /\ WF_vars(OpenServerSocket \/ AcceptShutdown \/ LinkFdObj \/ SetPeerAddr)
  /\ WF_vars(CleanUpStep)
  /\ \A c \in Conns : WF_vars(PeerFinishWrite(c) /\ UNCHANGED <<acceptVars, cleanVars>>)

Spec == Init /\ [][Next]_vars /\ Fairness

-----------------------------------------------------------------------------
(* The connection lifecycle the transport promises (TcpConnLifecycle):  *)
(* an FdObj is open while its signature is set, the upper layer has been *)
(* told of the broken link once taosReportBrokenLink called processData, *)
(* has closed the connection once closedByApp is set, and a message is   *)
(* being handed to it while its I/O thread is in the upcall.             *)
Lifecycle == INSTANCE TcpConnLifecycle WITH
  conn <- [c \in Conns |-> CASE fdobj[c] = "none" -> "none"
                              [] fdobj[c] = "live" -> "open"
                              [] OTHER             -> "closed"],
  notified <- [c \in Conns |-> notified[c] > 0],
  appClosed <- closedByApp,
  handing <- [c \in Conns |-> \E w \in Workers : wpc[w] = "upcall" /\ rcpt[w].conn = c]

(* Every step of the accept thread, the I/O threads, the application and *)
(* cleanup is a step of the connection lifecycle, or leaves it as it is. *)
(* Violated: taosReadTcpData (487) and taosReportBrokenLink (427) read    *)
(* closedByApp without the mutex before their upcall, and the app's       *)
(* unlocked taosCloseTcpConnection can run in between.                    *)
LifecycleRefined == Lifecycle!LSpec

-----------------------------------------------------------------------------
(* Every variable stays in its domain; in particular threadId always    *)
(* names one of the numOfThreads I/O threads, and numOfFds stays within *)
(* the number of connections either way.                                *)
TypeOK ==
  /\ fdobj \in [Conns -> {"none", "live", "freed", "failed"}]
  /\ owner \in [Conns -> Workers]
  /\ closedByApp \in [Conns -> BOOLEAN]
  /\ addrSet \in [Conns -> BOOLEAN]
  /\ next \in [Conns -> Conns \cup {NULL}]
  /\ prev \in [Conns -> Conns \cup {NULL}]
  /\ head \in [Workers -> Conns \cup {NULL}]
  /\ numOfFds \in [Workers -> -Cardinality(Conns)..Cardinality(Conns)]
  /\ stop \in [Workers -> BOOLEAN]
  /\ evAdded \in [Workers -> BOOLEAN]
  /\ wpc \in [Workers -> {"wait", "loop", "upcall", "report", "exited"}]
  /\ batch \in [Workers -> SUBSET [conn : Conns \cup {NULL}, ev : SUBSET Flag]]
  /\ rcpt \in [Workers -> [conn : Conns \cup {NULL}, addr : BOOLEAN]]
  /\ inbuf \in [Conns -> 0..MaxMsgs]
  /\ trunc \in [Conns -> BOOLEAN]
  /\ sent \in [Conns -> 0..MaxMsgs]
  /\ peer \in [Conns -> {"open", "shut", "reset"}]
  /\ wrShut \in [Conns -> BOOLEAN]
  /\ appHolds \in [Conns -> BOOLEAN]
  /\ notified \in [Conns -> Nat]
  /\ released \in [Conns -> Nat]
  /\ acc \in {"open", "accept", "link", "addr", "exited"}
  /\ accConn \in Conns \cup {NULL}
  /\ srvFd \in BOOLEAN /\ listenShut \in BOOLEAN /\ srvStop \in BOOLEAN
  /\ rr \in Workers
  /\ cl \in {"idle", "joinAcc", "stop", "wake", "join", "done"}
  /\ ci \in 0..NumThreads

-----------------------------------------------------------------------------
(* Liveness of the server.                                                  *)

(* taosCleanUpTcpServer returns: the accept thread leaves accept() after  *)
(* shutdown(SHUT_RD), and every I/O thread leaves epoll_wait once         *)
(* fd_event is added.                                                     *)
CleanupTerminates ==
  (cl # "idle") ~> (cl = "done")

(* Properties the code does not have (checked by the violation runs).     *)

(* The FdObjs reachable from pHead are exactly the live FdObjs of the     *)
(* thread (but the one taosMallocFdObj is about to link), and numOfFds    *)
(* counts them.                                                           *)
Registered(w) ==
  {c \in Conns : fdobj[c] = "live" /\ owner[c] = w}
    \ (IF acc = "link" THEN {accConn} ELSE {})

RegistryMatchesLive ==
  \A w \in Workers :
    /\ InList(w) = Registered(w)
    /\ numOfFds[w] = Cardinality(Registered(w))

(* Every message handed to the upper layer carries the peer's ip/port.    *)
ReceiptCarriesPeerAddr ==
  \A w \in Workers : wpc[w] = "upcall" => rcpt[w].addr

(* When taosCleanUpTcpServer has returned, the accept thread has exited.  *)
CleanupJoinsAcceptor ==
  cl = "done" => acc = "exited"
=============================================================================
