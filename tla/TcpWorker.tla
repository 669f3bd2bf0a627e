------------------------------ MODULE TcpWorker ------------------------------
(***************************************************************************)
(* The I/O threads of src/src/rpc/src/rpcTcp.c (SThreadObj) and the        *)
(* connection objects they own (SFdObj).                                   *)
(*                                                                         *)
(*  - the per-thread FdObj list: pHead and the prev/next links, numOfFds,  *)
(*    mutated under SThreadObj.mutex by taosMallocFdObj/taosFreeFdObj;     *)
(*  - the epoll loop taosProcessTcpData: epoll_wait, the stop check, and   *)
(*    the dispatch of every ready event (broken link or read + upcall);    *)
(*  - the drain of the list in taosReleaseTcpThreadResource;               *)
(*  - the environment: the remote peer of every socket and the upper       *)
(*    layer that closes connections (taosCloseTcpConnection).              *)
(*                                                                         *)
(* The acceptor/connector that creates FdObjs and the shutdown sequence    *)
(* that stops the threads are in TcpServer (and later TcpClient), which    *)
(* EXTEND this module.                                                     *)
(*                                                                         *)
(* An FdObj is identified by its address (an element of Conns).  The      *)
(* signature field is "fdobj[c] = live": taosFreeFdObj clears it before    *)
(* tfree, and a freed object is read back as it was left (no reuse of the  *)
(* address), which is one of the outcomes of reading freed memory.  The    *)
(* socket descriptor and the epoll registration of an FdObj live exactly   *)
(* as long as its signature, so they are not separate variables.           *)
(***************************************************************************)
EXTENDS Integers, FiniteSets

CONSTANTS Workers,   \* thread indexes 0..numOfThreads-1
          Conns,     \* FdObj addresses, one per accepted or opened socket
          NULL,      \* the null pointer
          MaxMsgs    \* bound on the messages one peer writes

ASSUME Workers = 0..(Cardinality(Workers) - 1) /\ Workers # {}
ASSUME NULL \notin Conns /\ MaxMsgs \in Nat

\* epoll event bits the loop tests (EPOLLERR, EPOLLRDHUP, EPOLLHUP) and EPOLLIN
ErrFlags == {"ERR", "RDHUP", "HUP"}
Flag     == ErrFlags \cup {"IN"}

VARIABLES
  fdobj,        \* FdObj memory: "none" (not created), "live", "freed",
                \* "failed" (taosMallocFdObj returned NULL, socket closed)
  owner,        \* FdObj.pThreadObj
  closedByApp,  \* FdObj.closedByApp
  addrSet,      \* FdObj.ip/port have been written by the creator
  next, prev,   \* FdObj.next / FdObj.prev
  head,         \* SThreadObj.pHead
  numOfFds,     \* SThreadObj.numOfFds
  stop,         \* SThreadObj.stop
  evAdded,      \* fd_event has been added to the thread's epoll set
  wpc,          \* where the thread is: "wait" (epoll_wait), "loop" (the
                \* for loop over events), "upcall" (processData of a message),
                \* "report" (processData of a broken-link notice), "exited"
  batch,        \* the events epoll_wait returned and not yet dispatched
  rcpt,         \* the SRecvInfo built by taosReadTcpData for the upcall
  inbuf,        \* whole messages readable on the socket
  trunc,        \* a partial message is readable after them
  sent,         \* messages the peer has started to write
  peer,         \* the peer: "open", "shut" (FIN received), "reset"
  wrShut,       \* shutdown(fd, SHUT_WR) was called on our side
  appHolds,     \* the upper layer holds the FdObj as its chandle
  notified,     \* broken-link upcalls delivered for the FdObj
  released      \* times taosFreeFdObj released the FdObj

workerVars == <<fdobj, owner, closedByApp, addrSet, next, prev, head,
                numOfFds, stop, evAdded, wpc, batch, rcpt, inbuf, trunc,
                sent, peer, wrShut, appHolds, notified, released>>

-----------------------------------------------------------------------------
(* The registry: the part of the state that taosFreeFdObj changes.  It is *)
(* handled as a record so that the drain loop can apply taosFreeFdObj     *)
(* repeatedly to the result of the previous call.                         *)

Reg == [fdobj |-> fdobj, head |-> head, next |-> next, prev |-> prev,
        numOfFds |-> numOfFds, released |-> released]

SetReg(s) == /\ fdobj' = s.fdobj      /\ head' = s.head
             /\ next' = s.next        /\ prev' = s.prev
             /\ numOfFds' = s.numOfFds /\ released' = s.released

(* Variant: taosFreeFdObj without the signature checks. *)
FreeFdObjNoSignature(s, c) ==
  LET w == owner[c]
      p == s.prev[c]
      n == s.next[c]
  IN [s EXCEPT !.fdobj[c]    = "freed",
               !.numOfFds[w] = @ - 1,
               !.next        = IF p # NULL THEN [@ EXCEPT ![p] = n] ELSE @,
               !.head        = IF p = NULL THEN [@ EXCEPT ![w] = n] ELSE @,
               !.prev        = IF n # NULL THEN [@ EXCEPT ![n] = p] ELSE @,
               !.released[c] = @ + 1]

(* taosFreeFdObj: return unless the signature is valid; under the mutex   *)
(* clear the signature, epoll_ctl DEL and close the socket, decrement     *)
(* numOfFds, unlink from the list through prev/next (the object's own     *)
(* links are left as they are), then tfree.                               *)
FreeFdObj(s, c) ==
  IF s.fdobj[c] # "live" THEN s
  ELSE LET w == owner[c]
           p == s.prev[c]
           n == s.next[c]
       IN [s EXCEPT !.fdobj[c]    = "freed",
                    !.numOfFds[w] = @ - 1,
                    !.next        = IF p # NULL THEN [@ EXCEPT ![p] = n] ELSE @,
                    !.head        = IF p = NULL THEN [@ EXCEPT ![w] = n] ELSE @,
                    !.prev        = IF n # NULL THEN [@ EXCEPT ![n] = p] ELSE @,
                    !.released[c] = @ + 1]

Free(c) == SetReg(FreeFdObj(Reg, c))

(* The loop of taosReleaseTcpThreadResource: pFdObj = pHead; pHead =      *)
(* pFdObj->next; taosFreeFdObj(pFdObj); while pHead.  fuel bounds the     *)
(* walk; a list of more than Cardinality(Conns) links would be a cycle.   *)
RECURSIVE DrainList(_, _, _)
DrainList(s, w, fuel) ==
  IF s.head[w] = NULL \/ fuel = 0 THEN s
  ELSE LET x == s.head[w]
       IN DrainList(FreeFdObj([s EXCEPT !.head[w] = s.next[x]], x), w, fuel - 1)

(* The objects reachable from pHead. *)
RECURSIVE ListFrom(_, _)
ListFrom(x, fuel) ==
  IF x = NULL \/ fuel = 0 THEN {} ELSE {x} \cup ListFrom(next[x], fuel - 1)

InList(w) == ListFrom(head[w], Cardinality(Conns) + 1)

(* The first half of taosMallocFdObj(w, fd): calloc (closedByApp = 0,    *)
(* signature set), then epoll_ctl ADD with data.ptr = pFdObj, from which  *)
(* moment thread w can dispatch events of the FdObj.                      *)
MallocFdObj(c, w) ==
  /\ fdobj' = [fdobj EXCEPT ![c] = "live"]
  /\ owner' = [owner EXCEPT ![c] = w]

(* The rest of taosMallocFdObj: under the mutex push the FdObj at the head *)
(* of its thread's list and increment numOfFds.                           *)
LinkIntoList(c) ==
  LET w == owner[c]
  IN /\ next' = [next EXCEPT ![c] = head[w]]
     /\ prev' = IF head[w] # NULL THEN [prev EXCEPT ![head[w]] = c] ELSE prev
     /\ head' = [head EXCEPT ![w] = c]
     /\ numOfFds' = [numOfFds EXCEPT ![w] = @ + 1]

(* taosReleaseTcpThreadResource: close pollFd and fd_event, then free    *)
(* every FdObj left in the list.                                          *)
ReleaseTcpThreadResource(w) ==
  /\ SetReg(DrainList(Reg, w, Cardinality(Conns) + 1))
  /\ evAdded' = [evAdded EXCEPT ![w] = FALSE]

-----------------------------------------------------------------------------
(* Readiness of a live socket as epoll reports it (level triggered, the   *)
(* FdObj registered with EPOLLIN | EPOLLRDHUP; ERR and HUP are implicit). *)
Flags(c) ==
  (IF inbuf[c] > 0 \/ trunc[c] \/ peer[c] # "open" THEN {"IN"} ELSE {})
  \cup (IF peer[c] # "open" THEN {"RDHUP"} ELSE {})
  \cup (IF peer[c] = "reset" \/ (peer[c] = "shut" /\ wrShut[c])
        THEN {"HUP"} ELSE {})
  \cup (IF peer[c] = "reset" THEN {"ERR"} ELSE {})

Ready(w) == {c \in Conns : fdobj[c] = "live" /\ owner[c] = w /\ Flags(c) # {}}

\* the fd_event entry: pThreadObj->event has events = EPOLLIN, data.ptr = 0
WakeEvent == [conn |-> NULL, ev |-> {"IN"}]

WorkerInit ==
  /\ fdobj = [c \in Conns |-> "none"]
  /\ owner = [c \in Conns |-> 0]
  /\ closedByApp = [c \in Conns |-> FALSE]
  /\ addrSet = [c \in Conns |-> FALSE]
  /\ next = [c \in Conns |-> NULL]
  /\ prev = [c \in Conns |-> NULL]
  /\ head = [w \in Workers |-> NULL]
  /\ numOfFds = [w \in Workers |-> 0]
  /\ stop = [w \in Workers |-> FALSE]
  /\ evAdded = [w \in Workers |-> FALSE]
  /\ wpc = [w \in Workers |-> "wait"]
  /\ batch = [w \in Workers |-> {}]
  /\ rcpt = [w \in Workers |-> [conn |-> NULL, addr |-> FALSE]]
  /\ inbuf = [c \in Conns |-> 0]
  /\ trunc = [c \in Conns |-> FALSE]
  /\ sent = [c \in Conns |-> 0]
  /\ peer = [c \in Conns |-> "open"]
  /\ wrShut = [c \in Conns |-> FALSE]
  /\ appHolds = [c \in Conns |-> FALSE]
  /\ notified = [c \in Conns |-> 0]
  /\ released = [c \in Conns |-> 0]

-----------------------------------------------------------------------------
(* taosProcessTcpData, one action per step of the thread.                  *)

(* epoll_wait(pollFd, events, maxEvents, -1) blocks until a registered fd *)
(* is ready and returns some of the ready ones (those ready at the instant *)
(* it returns; the fd_event is ready from the moment it is added), then   *)
(* the thread leaves the loop if stop is set.                             *)
EpollWait(w) ==
  /\ wpc[w] = "wait"
  /\ Ready(w) # {} \/ evAdded[w]
  /\ \E S \in SUBSET Ready(w) :
       /\ S # {} \/ evAdded[w]
       /\ IF stop[w]
          THEN /\ wpc' = [wpc EXCEPT ![w] = "exited"]
               /\ batch' = [batch EXCEPT ![w] = {}]
          ELSE /\ wpc' = [wpc EXCEPT ![w] = "loop"]
               /\ batch' = [batch EXCEPT ![w] =
                              {[conn |-> c, ev |-> Flags(c)] : c \in S}
                              \cup (IF evAdded[w] THEN {WakeEvent} ELSE {})]
  /\ UNCHANGED <<fdobj, owner, closedByApp, addrSet, next, prev, head,
                 numOfFds, stop, evAdded, rcpt, inbuf, trunc, sent, peer,
                 wrShut, appHolds, notified, released>>

(* Variant: taosReportBrokenLink with taosFreeFdObj inside the            *)
(* closedByApp == 0 branch.                                                *)
ReportBrokenLinkKeepClosed(w, c) ==
  IF closedByApp[c]
  THEN UNCHANGED <<wrShut, wpc, rcpt, fdobj, head, next, prev, numOfFds,
                   released>>
  ELSE /\ wrShut' = [wrShut EXCEPT ![c] = TRUE]
       /\ wpc' = [wpc EXCEPT ![w] = "report"]
       /\ rcpt' = [rcpt EXCEPT ![w] = [conn |-> c, addr |-> FALSE]]
       /\ UNCHANGED <<fdobj, head, next, prev, numOfFds, released>>

(* taosReportBrokenLink reads closedByApp once, without the mutex.  Set:  *)
(* straight to taosFreeFdObj.  Clear: shutdown(fd, SHUT_WR) and a notice  *)
(* (msg NULL, ip and port 0) for processData, whose call is the next step *)
(* of the thread (NotifyBrokenLink).                                       *)
ReportBrokenLink(w, c) ==
  IF closedByApp[c]
  THEN Free(c) /\ UNCHANGED <<wrShut, wpc, rcpt>>
  ELSE /\ wrShut' = [wrShut EXCEPT ![c] = TRUE]
       /\ wpc' = [wpc EXCEPT ![w] = "report"]
       /\ rcpt' = [rcpt EXCEPT ![w] = [conn |-> c, addr |-> FALSE]]
       /\ UNCHANGED <<fdobj, head, next, prev, numOfFds, released>>

(* processData(&recvInfo) with the broken-link notice: the upper layer    *)
(* drops its chandle; then taosFreeFdObj and the next event.              *)
NotifyBrokenLink(w) ==
  /\ wpc[w] = "report"
  /\ LET c == rcpt[w].conn IN
       /\ notified' = [notified EXCEPT ![c] = @ + 1]
       /\ appHolds' = [appHolds EXCEPT ![c] = FALSE]
       /\ Free(c)
  /\ wpc' = [wpc EXCEPT ![w] = "loop"]
  /\ UNCHANGED <<owner, closedByApp, addrSet, stop, evAdded, batch, rcpt,
                 inbuf, trunc, sent, peer, wrShut>>

(* Variant: the loop without "continue" after taosReportBrokenLink: an    *)
(* event with several of ERR, RDHUP, HUP reaches the next test again.     *)
FirstErr(ev) ==
  IF "ERR" \in ev THEN "ERR" ELSE IF "RDHUP" \in ev THEN "RDHUP" ELSE "HUP"

BrokenLinkNoContinue(w) ==
  /\ wpc[w] = "loop"
  /\ \E e \in batch[w] :
       LET rest == e.ev \ {FirstErr(e.ev)} IN
       /\ e.ev \cap ErrFlags # {}
       /\ batch' = [batch EXCEPT ![w] = (@ \ {e}) \cup
                      (IF rest \cap ErrFlags # {} THEN {[e EXCEPT !.ev = rest]} ELSE {})]
       /\ ReportBrokenLink(w, e.conn)
  /\ UNCHANGED <<owner, closedByApp, addrSet, stop, evAdded, inbuf, trunc,
                 sent, peer, appHolds, notified>>

(* An event with EPOLLERR, EPOLLRDHUP or EPOLLHUP: report the broken link *)
(* and continue with the next event.                                      *)
BrokenLink(w) ==
  /\ wpc[w] = "loop"
  /\ \E e \in batch[w] :
       /\ e.ev \cap ErrFlags # {}
       /\ batch' = [batch EXCEPT ![w] = @ \ {e}]
       /\ ReportBrokenLink(w, e.conn)
  /\ UNCHANGED <<owner, closedByApp, addrSet, stop, evAdded, inbuf, trunc,
                 sent, peer, appHolds, notified>>

(* A readable event: taosReadTcpData reads the header and the body with   *)
(* blocking reads (taosReadMsg returns short only on EOF or error, and    *)
(* blocks while a partial message waits for its tail).  It fails (-1) on  *)
(* a short read, when the buffer cannot be allocated, or when the app has *)
(* closed the FdObj; the loop then shuts the write side down.             *)
ReadTcpData(w) ==
  /\ wpc[w] = "loop"
  /\ \E e \in batch[w] :
     LET c == e.conn IN
       /\ c # NULL
       /\ e.ev \cap ErrFlags = {}
       /\ batch' = [batch EXCEPT ![w] = @ \ {e}]
       /\ \/ /\ peer[c] # "reset" /\ inbuf[c] > 0
             /\ inbuf' = [inbuf EXCEPT ![c] = @ - 1]
             /\ UNCHANGED trunc
             /\ \/ /\ ~closedByApp[c]
                   /\ wpc' = [wpc EXCEPT ![w] = "upcall"]
                   /\ rcpt' = [rcpt EXCEPT ![w] = [conn |-> c, addr |-> addrSet[c]]]
                   /\ UNCHANGED wrShut
                \/ /\ wrShut' = [wrShut EXCEPT ![c] = TRUE]
                   /\ UNCHANGED <<wpc, rcpt>>
          \/ /\ peer[c] = "reset" \/ (peer[c] = "shut" /\ inbuf[c] = 0)
             /\ inbuf' = [inbuf EXCEPT ![c] = 0]
             /\ trunc' = [trunc EXCEPT ![c] = FALSE]
             /\ wrShut' = [wrShut EXCEPT ![c] = TRUE]
             /\ UNCHANGED <<wpc, rcpt>>
  /\ UNCHANGED <<fdobj, owner, closedByApp, addrSet, next, prev, head,
                 numOfFds, stop, evAdded, sent, peer, appHolds, notified,
                 released>>

(* pFdObj->thandle = processData(&recvInfo): the upper layer now holds the *)
(* FdObj as chandle; a NULL thandle makes the loop free the FdObj.        *)
Upcall(w) ==
  /\ wpc[w] = "upcall"
  /\ LET c == rcpt[w].conn IN
       \/ /\ appHolds' = [appHolds EXCEPT ![c] = TRUE]
          /\ UNCHANGED <<fdobj, head, next, prev, numOfFds, released>>
       \/ /\ appHolds' = [appHolds EXCEPT ![c] = FALSE]
          /\ Free(c)
  /\ wpc' = [wpc EXCEPT ![w] = "loop"]
  /\ UNCHANGED <<owner, closedByApp, addrSet, stop, evAdded, batch, rcpt,
                 inbuf, trunc, sent, peer, wrShut, notified>>

(* The for loop has dispatched every event: back to epoll_wait. *)
LoopEnd(w) ==
  /\ wpc[w] = "loop"
  /\ batch[w] = {}
  /\ wpc' = [wpc EXCEPT ![w] = "wait"]
  /\ UNCHANGED <<fdobj, owner, closedByApp, addrSet, next, prev, head,
                 numOfFds, stop, evAdded, batch, rcpt, inbuf, trunc, sent,
                 peer, wrShut, appHolds, notified, released>>

WorkerStep(w) ==
  \/ EpollWait(w) \/ BrokenLink(w) \/ NotifyBrokenLink(w)
  \/ ReadTcpData(w) \/ Upcall(w) \/ LoopEnd(w)

-----------------------------------------------------------------------------
(* The environment of a live socket.                                        *)

peerFixed == <<fdobj, owner, closedByApp, addrSet, next, prev, head,
               numOfFds, stop, evAdded, wpc, batch, rcpt, wrShut, appHolds,
               notified, released>>

(* The peer writes a whole message, or the first part of one. *)
PeerWrite(c) ==
  /\ fdobj[c] = "live" /\ peer[c] = "open" /\ ~trunc[c] /\ sent[c] < MaxMsgs
  /\ sent' = [sent EXCEPT ![c] = @ + 1]
  /\ \/ inbuf' = [inbuf EXCEPT ![c] = @ + 1] /\ UNCHANGED trunc
     \/ trunc' = [trunc EXCEPT ![c] = TRUE] /\ UNCHANGED inbuf
  /\ UNCHANGED <<peer, peerFixed>>

(* The peer writes the rest of a partial message. *)
PeerFinishWrite(c) ==
  /\ fdobj[c] = "live" /\ peer[c] = "open" /\ trunc[c]
  /\ trunc' = [trunc EXCEPT ![c] = FALSE]
  /\ inbuf' = [inbuf EXCEPT ![c] = @ + 1]
  /\ UNCHANGED <<sent, peer, peerFixed>>

(* The peer closes its side (FIN), or the connection is reset. *)
PeerShutdown(c) ==
  /\ fdobj[c] = "live" /\ peer[c] = "open"
  /\ peer' = [peer EXCEPT ![c] = "shut"]
  /\ UNCHANGED <<inbuf, trunc, sent, peerFixed>>

PeerReset(c) ==
  /\ fdobj[c] = "live" /\ peer[c] # "reset"
  /\ peer' = [peer EXCEPT ![c] = "reset"]
  /\ UNCHANGED <<inbuf, trunc, sent, peerFixed>>

PeerStep(c) ==
  PeerWrite(c) \/ PeerFinishWrite(c) \/ PeerShutdown(c) \/ PeerReset(c)

(* taosCloseTcpConnection from an application thread: thandle = NULL,     *)
(* closedByApp = 1, shutdown(fd, SHUT_WR); no lock, no signature check.   *)
CloseTcpConnection(c) ==
  /\ appHolds[c]
  /\ closedByApp' = [closedByApp EXCEPT ![c] = TRUE]
  /\ wrShut' = [wrShut EXCEPT ![c] = TRUE]
  /\ appHolds' = [appHolds EXCEPT ![c] = FALSE]
  /\ UNCHANGED <<fdobj, owner, addrSet, next, prev, head, numOfFds, stop,
                 evAdded, wpc, batch, rcpt, inbuf, trunc, sent, peer,
                 notified, released>>
-----------------------------------------------------------------------------
(* Properties of the I/O threads, shared by the server and the client.      *)

(* The fd_event entry (data.ptr = 0) is never dispatched as a connection: *)
(* taosStopTcpThread sets stop before it adds fd_event, so an epoll_wait  *)
(* that returns fd_event is always followed by the stop check's exit.     *)
WakeEventNeverDispatched ==
  \A w \in Workers : WakeEvent \notin batch[w]

(* Every event the loop dispatches, and every receipt it hands to the     *)
(* upcall, refers to an FdObj that has not been freed: only the owning    *)
(* thread frees an FdObj while it runs, and taosCleanUpTcpServer drains   *)
(* the list only after pthread_join.                                      *)
DispatchOnlyLive ==
  \A w \in Workers :
    /\ wpc[w] = "loop" =>
         \A e \in batch[w] : e.conn # NULL => fdobj[e.conn] = "live"
    /\ wpc[w] \in {"upcall", "report"} => fdobj[rcpt[w].conn] = "live"

(* The upper layer is told of a broken link at most once per FdObj, even  *)
(* when EPOLLERR, EPOLLRDHUP and EPOLLHUP arrive in one event (the loop   *)
(* continues after taosReportBrokenLink).                                 *)
BrokenLinkOnce ==
  \A c \in Conns : notified[c] <= 1

(* A connection whose peer has closed or reset it is released by its I/O *)
(* thread, unless that thread is being stopped.                           *)
HangupReleased ==
  \A c \in Conns :
    (fdobj[c] = "live" /\ peer[c] # "open") ~> (fdobj[c] # "live" \/ stop[owner[c]])

(* The upper layer never holds, as its chandle, an FdObj that has been  *)
(* freed: it is told of every broken link (and drops the chandle) unless  *)
(* it closed the connection itself, and an upcall returning NULL frees    *)
(* the FdObj only when the upper layer keeps no handle.                   *)
AppHandlesLive ==
  \A c \in Conns : appHolds[c] => fdobj[c] = "live"
=============================================================================
