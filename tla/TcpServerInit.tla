---------------------------- MODULE TcpServerInit ----------------------------
(***************************************************************************)
(* taosInitTcpServer of src/src/rpc/src/rpcTcp.c with every failure it     *)
(* handles: the two callocs, and for each I/O thread i in turn             *)
(* pthread_mutex_init, eventfd, epoll_create and pthread_create; then the  *)
(* accept thread; and on failure taosCleanUpTcpServer.                     *)
(*                                                                         *)
(* The I/O threads started here have no connection yet (the accept thread  *)
(* has not run), so stopping one is: stop, fd_event added, join, release.  *)
(* eventfd and epoll_create results are abstracted to the set of a         *)
(* thread's descriptors that are open.                                     *)
(***************************************************************************)
EXTENDS Integers, FiniteSets

CONSTANTS Workers    \* 0..numOfThreads-1, the threads the caller asks for

ASSUME Workers = 0..(Cardinality(Workers) - 1) /\ Workers # {}

N == Cardinality(Workers)

VARIABLES
  ipc,        \* where taosInitTcpServer is: "server", "threads", "loop",
              \* "after", "finish", "cleanup", "done"
  i,          \* the loop index
  code,       \* "ok" (0) or "err" (non-zero)
  nThreads,   \* pServerObj->numOfThreads
  mutex,      \* per thread: "none", "init", "failed" (init returned an
              \* error number), "destroyed"
  fds,        \* per thread: the open ones of fd_event and pollFd
  thr,        \* per thread: "none", "running", "joined"
  badJoin,    \* pthread_join was called on a thread that was never created
  accThr,     \* the accept thread: "none", "running", "failed"
  ret         \* "pending", "server", "null"

vars == <<ipc, i, code, nThreads, mutex, fds, thr, badJoin, accThr, ret>>

Init ==
  /\ ipc = "server"
  /\ i = 0
  /\ code = "ok"
  /\ nThreads = N
  /\ mutex = [w \in Workers |-> "none"]
  /\ fds = [w \in Workers |-> {}]
  /\ thr = [w \in Workers |-> "none"]
  /\ badJoin = FALSE
  /\ accThr = "none"
  /\ ret = "pending"

-----------------------------------------------------------------------------
(* calloc of the SServerObj, then of the SThreadObj array; either failure *)
(* returns NULL at once.                                                  *)
AllocServer ==
  /\ ipc = "server"
  /\ \/ ipc' = "threads" /\ UNCHANGED ret
     \/ ipc' = "done" /\ ret' = "null"
  /\ UNCHANGED <<i, code, nThreads, mutex, fds, thr, badJoin, accThr>>

AllocThreads ==
  /\ ipc = "threads"
  /\ \/ ipc' = "loop" /\ UNCHANGED ret
     \/ ipc' = "done" /\ ret' = "null"
  /\ UNCHANGED <<i, code, nThreads, mutex, fds, thr, badJoin, accThr>>

(* One iteration of the thread loop.  pthread_mutex_init reports failure *)
(* by a positive error number, which the test code < 0 does not catch, so *)
(* the iteration goes on and code is overwritten.  fd_event is an         *)
(* eventfd_t (uint64_t), so the test fd_event < 0 never catches a failed  *)
(* eventfd either: the thread is started without a wake descriptor.  A    *)
(* failure of epoll_create or pthread_create sets code, the thread's      *)
(* descriptors are closed (taosReleaseTcpThreadResource), its mutex       *)
(* destroyed, and the loop breaks with i the number of threads started.   *)
InitThread ==
  /\ ipc = "loop"
  /\ i < N
  /\ \E mok \in BOOLEAN, evs \in {{"event", "poll"}, {"poll"}} :
       /\ \/ /\ fds' = [fds EXCEPT ![i] = evs]
             /\ thr' = [thr EXCEPT ![i] = "running"]
             /\ mutex' = [mutex EXCEPT ![i] = IF mok THEN "init" ELSE "failed"]
             /\ i' = i + 1
             /\ ipc' = IF i + 1 = N THEN "after" ELSE "loop"
             /\ UNCHANGED code
          \/ /\ mutex' = [mutex EXCEPT ![i] = "destroyed"]
             /\ code' = "err"
             /\ ipc' = "after"
             /\ UNCHANGED <<fds, thr, i>>
  /\ UNCHANGED <<nThreads, badJoin, accThr, ret>>

(* Variant: numOfThreads is left at the requested count after a break. *)
SetNumOfThreadsNotReduced == nThreads

(* if (i < numOfThreads) pServerObj->numOfThreads = i. *)
SetNumOfThreads == IF i < N THEN i ELSE nThreads

(* After the loop: record how many threads started; only if code is 0   *)
(* and there is at least one, create the accept thread.                   *)
AfterLoop ==
  /\ ipc = "after"
  /\ nThreads' = SetNumOfThreads
  /\ IF code = "ok" /\ SetNumOfThreads > 0
     THEN \/ accThr' = "running" /\ UNCHANGED code
          \/ accThr' = "failed" /\ code' = "err"
     ELSE UNCHANGED <<accThr, code>>
  /\ ipc' = "finish"
  /\ UNCHANGED <<i, mutex, fds, thr, badJoin, ret>>

(* if (code != 0) taosCleanUpTcpServer, return NULL; else the server. *)
Finish ==
  /\ ipc = "finish"
  /\ IF code = "ok"
     THEN ipc' = "done" /\ ret' = "server"
     ELSE ipc' = "cleanup" /\ UNCHANGED ret
  /\ UNCHANGED <<i, code, nThreads, mutex, fds, thr, badJoin, accThr>>

(* taosCleanUpTcpServer: fd is -1 (the accept thread, if any, has not    *)
(* opened the socket), so no join; then for each of the numOfThreads      *)
(* threads taosStopTcpThread (stop, wake, join, release the descriptors)  *)
(* and pthread_mutex_destroy; the objects are freed.  A thread without    *)
(* fd_event cannot be woken: epoll_ctl ADD fails and pthread_cancel ends  *)
(* it in epoll_wait (it has no connection yet), so it is joined as well.  *)
CleanUp ==
  /\ ipc = "cleanup"
  /\ LET S == 0..(nThreads - 1) IN
       /\ thr' = [w \in Workers |-> IF w \in S /\ thr[w] = "running"
                                   THEN "joined" ELSE thr[w]]
       /\ fds' = [w \in Workers |-> IF w \in S THEN {} ELSE fds[w]]
       /\ mutex' = [w \in Workers |-> IF w \in S THEN "destroyed" ELSE mutex[w]]
       /\ badJoin' = \E w \in S : thr[w] = "none"
  /\ ipc' = "done"
  /\ ret' = "null"
  /\ UNCHANGED <<i, code, nThreads, accThr>>

Done == ipc = "done" /\ UNCHANGED vars

Next ==
  AllocServer \/ AllocThreads \/ InitThread \/ AfterLoop \/ Finish \/ CleanUp
  \/ Done

Spec == Init /\ [][Next]_vars

-----------------------------------------------------------------------------
(* When taosInitTcpServer returns NULL, everything it created is gone:   *)
(* no I/O thread runs, no descriptor or mutex of a thread is left, and    *)
(* cleanup joined only threads that exist.                                *)
FailedInitReleasesAll ==
  ret = "null" =>
    /\ \A w \in Workers : thr[w] # "running" /\ fds[w] = {}
                          /\ mutex[w] \in {"none", "destroyed"}
    /\ ~badJoin

(* Spec 4.1: the server starts with the i >= 1 I/O threads that did start *)
(* (the comment at the assignment of numOfThreads says the same); it     *)
(* fails only if no thread started (or the accept thread failed).         *)
StartsWithStartedThreads ==
  (ipc = "done" /\ ret = "null" /\ accThr # "failed") =>
    \A w \in Workers : thr[w] = "none"

(* Every running I/O thread has an initialised mutex. *)
ThreadsHaveMutex ==
  \A w \in Workers : thr[w] = "running" => mutex[w] = "init"
=============================================================================
