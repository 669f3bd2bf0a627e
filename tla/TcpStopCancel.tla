----------------------------- MODULE TcpStopCancel -----------------------------
(***************************************************************************)
(* taosStopTcpThread of src/src/rpc/src/rpcTcp.c on the path where adding *)
(* fd_event to the epoll set fails and the I/O thread is stopped with      *)
(* pthread_cancel, followed by pthread_join and taosReleaseTcpThreadResource.*)
(*                                                                         *)
(* Cancellation is deferred (the pthread default): the I/O thread dies at *)
(* the next cancellation point it reaches with a cancel pending.  Those   *)
(* of taosProcessTcpData are epoll_wait, the read() of taosReadMsg, the   *)
(* close() taosFreeFdObj makes while holding SThreadObj.mutex, and the    *)
(* log write of tTrace after the unlock (when tracing is enabled).         *)
(*                                                                         *)
(* One I/O thread with its connections, already accepted and linked; the  *)
(* mutex is explicit, the list is the set of linked FdObjs (the drain's   *)
(* order does not matter here), events are chosen freely.                 *)
(*                                                                         *)
(* taosReadTcpData is the read of TcpFramer: the header read, the malloc  *)
(* of msgLen + tsRpcOverhead and the body read are separate steps, so a   *)
(* cancel at the header read loses no buffer and one at the body read     *)
(* loses the buffer of a message of any length the peer sent.            *)
(***************************************************************************)
EXTENDS Integers, FiniteSets

CONSTANTS Conns,
          W, HeadLen, Overhead, MaxAlloc   \* of TcpFramer

VARIABLES
  sig,        \* FdObj.signature is set
  listed,     \* the FdObj is linked in pHead's list
  mem,        \* "alloc" or "freed" (tfree)
  mutex,      \* SThreadObj.mutex: "free", or its holder "worker"/"cleanup"
  wpc,        \* the I/O thread: "wait", "read", "alloc", "body", "lock",
              \* "close", "trace",
              \* "exited", "cancelled"
  wconn,      \* the FdObj the I/O thread is working on
  bufLeak,    \* a taosReadTcpData buffer was lost with the thread
  cancelReq,  \* pthread_cancel has been called
  stop,       \* SThreadObj.stop
  evAdded,    \* fd_event is in the epoll set
  cpc,        \* taosStopTcpThread: "idle", "add", "join", "drain", "done"
  msgLen, size, writes, result, fpc   \* the read in progress (TcpFramer)

Fr == INSTANCE TcpFramer WITH pc <- fpc

readVars == <<msgLen, size, writes, result, fpc>>

vars == <<sig, listed, mem, mutex, wpc, wconn, bufLeak, cancelReq, stop,
          evAdded, cpc, readVars>>

(* No read in progress: the framer's state of the last read, reset. *)
NoRead ==
  /\ msgLen = 0 /\ size = -1 /\ writes = {} /\ result = "pending"
  /\ fpc = "done"

Init ==
  /\ sig = [c \in Conns |-> TRUE]
  /\ listed = [c \in Conns |-> TRUE]
  /\ mem = [c \in Conns |-> "alloc"]
  /\ mutex = "free"
  /\ wpc = "wait"
  /\ wconn \in Conns
  /\ bufLeak = FALSE
  /\ cancelReq = FALSE
  /\ stop = FALSE
  /\ evAdded = FALSE
  /\ cpc = "idle"
  /\ NoRead

cleanVars == <<stop, evAdded, cancelReq, cpc>>

-----------------------------------------------------------------------------
(* The I/O thread.  epoll_wait blocks until an FdObj of the set has an   *)
(* event; a pending cancel ends the thread there.  Once it returns, the  *)
(* stop check ends the loop whatever woke it (fd_event or a connection); *)
(* otherwise it dispatches an event of a live FdObj (a broken link:        *)
(* taosFreeFdObj; readable: taosReadTcpData).                              *)
EpollWait ==
  /\ wpc = "wait"
  /\ \/ cancelReq /\ wpc' = "cancelled" /\ UNCHANGED wconn
     \/ /\ ~cancelReq /\ stop
        /\ evAdded \/ (\E c \in Conns : sig[c])
        /\ wpc' = "exited" /\ UNCHANGED wconn
     \/ /\ ~stop
        /\ \E c \in Conns : sig[c] /\ wconn' = c /\ wpc' \in {"lock", "read"}
  /\ UNCHANGED <<sig, listed, mem, mutex, bufLeak, cleanVars, readVars>>

(* taosReadMsg of the header blocks in read(): a pending cancel ends the *)
(* thread before any buffer exists; a short header makes taosReadTcpData  *)
(* fail (the loop shuts the write side and goes on); otherwise msgLen is  *)
(* whatever the peer put in it.                                           *)
ReadHead ==
  /\ wpc = "read"
  /\ \/ cancelReq /\ wpc' = "cancelled" /\ UNCHANGED readVars
     \/ ~cancelReq /\ wpc' = "wait" /\ UNCHANGED readVars
     \/ /\ ~cancelReq /\ wpc' = "alloc"
        /\ msgLen' \in Fr!WireLens
        /\ size' = -1 /\ writes' = {} /\ result' = "pending" /\ fpc' = "alloc"
  /\ UNCHANGED <<sig, listed, mem, mutex, wconn, bufLeak, cleanVars>>

(* malloc(msgLen + tsRpcOverhead); on failure taosReadTcpData writes the *)
(* tError (a cancellation point) and returns -1.                          *)
AllocBuf ==
  /\ wpc = "alloc"
  /\ Fr!Alloc
  /\ \/ fpc' = "read" /\ wpc' = "body"
     \/ fpc' = "done" /\ wpc' = "wait"
     \/ fpc' = "done" /\ cancelReq /\ wpc' = "cancelled"
  /\ UNCHANGED <<sig, listed, mem, mutex, wconn, bufLeak, cleanVars>>

(* taosReadMsg of the body blocks in read() when leftLen > 0: a pending   *)
(* cancel ends the thread with the buffer allocated.  Otherwise the body *)
(* is read and the message delivered; on a short read the tError before *)
(* free(buffer) is a cancellation point, which also loses the buffer.     *)
ReadMsg ==
  /\ wpc = "body"
  /\ \/ /\ cancelReq /\ Fr!LeftLen > 0
        /\ wpc' = "cancelled" /\ bufLeak' = TRUE
        /\ UNCHANGED readVars
     \/ /\ ~(cancelReq /\ Fr!LeftLen > 0)
        /\ Fr!ReadBody
        /\ \/ wpc' = "wait" /\ UNCHANGED bufLeak
           \/ cancelReq /\ result' = "error" /\ wpc' = "cancelled" /\ bufLeak' = TRUE
  /\ UNCHANGED <<sig, listed, mem, mutex, wconn, cleanVars>>

(* taosFreeFdObj up to the close(): return unless the signature is set;  *)
(* lock the mutex (blocking while it is held); return if the signature   *)
(* was cleared meanwhile; clear it and epoll_ctl DEL.                     *)
FreeLock ==
  /\ wpc = "lock"
  /\ \/ ~sig[wconn] /\ wpc' = "wait" /\ UNCHANGED <<sig, mutex>>
     \/ /\ sig[wconn] /\ mutex = "free"
        /\ mutex' = "worker"
        /\ sig' = [sig EXCEPT ![wconn] = FALSE]
        /\ wpc' = "close"
  /\ UNCHANGED <<listed, mem, wconn, bufLeak, cleanVars, readVars>>

(* close() of the socket, with the mutex held: a pending cancel ends the *)
(* thread here; otherwise numOfFds--, unlink, unlock.                      *)
FreeClose ==
  /\ wpc = "close"
  /\ \/ cancelReq /\ wpc' = "cancelled" /\ UNCHANGED <<listed, mutex>>
     \/ /\ ~cancelReq
        /\ listed' = [listed EXCEPT ![wconn] = FALSE]
        /\ mutex' = "free"
        /\ wpc' = "trace"
  /\ UNCHANGED <<sig, mem, wconn, bufLeak, cleanVars, readVars>>

(* tTrace after the unlock may write the log (a cancellation point), then *)
(* tfree.                                                                  *)
FreeTrace ==
  /\ wpc = "trace"
  /\ \/ cancelReq /\ wpc' = "cancelled" /\ UNCHANGED mem
     \/ wpc' = "wait" /\ mem' = [mem EXCEPT ![wconn] = "freed"]
  /\ UNCHANGED <<sig, listed, mutex, wconn, bufLeak, cleanVars, readVars>>

WorkerStep == EpollWait \/ ReadHead \/ AllocBuf \/ ReadMsg \/ FreeLock \/ FreeClose \/ FreeTrace

-----------------------------------------------------------------------------
(* taosStopTcpThread, from the cleanup thread. *)
workerVars == <<sig, listed, mem, mutex, wpc, wconn, bufLeak, readVars>>

StopThread ==
  /\ cpc = "idle"
  /\ stop' = TRUE
  /\ cpc' = "add"
  /\ UNCHANGED <<evAdded, cancelReq, workerVars>>

(* epoll_ctl ADD of fd_event, and pthread_cancel when it fails. *)
AddEventOrCancel ==
  /\ cpc = "add"
  /\ \/ evAdded' = TRUE /\ UNCHANGED cancelReq
     \/ cancelReq' = TRUE /\ UNCHANGED evAdded
  /\ cpc' = "join"
  /\ UNCHANGED <<stop, workerVars>>

JoinThread ==
  /\ cpc = "join"
  /\ wpc \in {"exited", "cancelled"}
  /\ cpc' = "drain"
  /\ UNCHANGED <<stop, evAdded, cancelReq, workerVars>>

(* Variant: the list's head is released and the rest left. *)
ReleaseHeadOnly ==
  /\ cpc = "drain"
  /\ \E c \in Conns :
       /\ listed[c]
       /\ listed' = [listed EXCEPT ![c] = FALSE]
       /\ IF ~sig[c] THEN UNCHANGED <<sig, mem>>
          ELSE /\ mutex = "free"
               /\ sig' = [sig EXCEPT ![c] = FALSE]
               /\ mem' = [mem EXCEPT ![c] = "freed"]
  /\ cpc' = "done"
  /\ UNCHANGED <<mutex, wpc, wconn, bufLeak, stop, evAdded, cancelReq,
                 readVars>>

(* One turn of the loop of taosReleaseTcpThreadResource: pHead moves to  *)
(* the next FdObj, and taosFreeFdObj returns at once for a cleared        *)
(* signature, or locks the mutex (blocking while it is held), frees the   *)
(* FdObj and unlocks.  The loop ends when the list is empty.              *)
ReleaseTcpThreadResource ==
  /\ cpc = "drain"
  /\ \/ \E c \in Conns :
          /\ listed[c]
          /\ listed' = [listed EXCEPT ![c] = FALSE]
          /\ IF ~sig[c] THEN UNCHANGED <<sig, mem>>
             ELSE /\ mutex = "free"
                  /\ sig' = [sig EXCEPT ![c] = FALSE]
                  /\ mem' = [mem EXCEPT ![c] = "freed"]
          /\ UNCHANGED cpc
     \/ /\ \A c \in Conns : ~listed[c]
        /\ cpc' = "done"
        /\ UNCHANGED <<listed, sig, mem>>
  /\ UNCHANGED <<mutex, wpc, wconn, bufLeak, stop, evAdded, cancelReq,
                 readVars>>

CleanUpStep == AddEventOrCancel \/ JoinThread \/ ReleaseTcpThreadResource

Done == cpc = "done" /\ UNCHANGED vars

Next ==
  \/ WorkerStep /\ UNCHANGED cleanVars
  \/ StopThread
  \/ CleanUpStep
  \/ Done

(* Both threads run; taosStopTcpThread need not be called. *)
Spec == Init /\ [][Next]_vars /\ WF_vars(WorkerStep) /\ WF_vars(CleanUpStep)

-----------------------------------------------------------------------------
(* A forced cancel loses at most what the I/O thread was working on: when *)
(* taosStopTcpThread returns, every FdObj has been freed except at most  *)
(* one half-freed one, or the buffer of the message being read.           *)
CancelLosesAtMostOne ==
  cpc = "done" =>
    Cardinality({c \in Conns : mem[c] = "alloc"}) + (IF bufLeak THEN 1 ELSE 0) <= 1

(* Whatever msgLen the peer sends, the body read and the header copy of  *)
(* taosReadTcpData stay inside the buffer malloc returned, on every read  *)
(* the I/O thread completes before it is stopped or cancelled.            *)
WritesInBuffer == Fr!WritesInBuffer

(* msgLen + tsRpcOverhead at the malloc is computed without signed       *)
(* overflow (violated: the peer chooses msgLen; no run checks it).        *)
NoSignedOverflow == Fr!NoSignedOverflow

(* Spec 4.5 and its shutdown scenario: once started, stopping an I/O     *)
(* thread completes, on the pthread_cancel fallback too.                  *)
StopTerminates ==
  (cpc # "idle") ~> (cpc = "done")
=============================================================================
