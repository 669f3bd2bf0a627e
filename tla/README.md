# TLA+ models of TDengine's TCP RPC transport and mnode config table

This directory holds TLA+ models of the parts of this repository that have
concurrent or stateful behaviour:

- the TCP transport in `src/src/rpc/src/rpcTcp.c`;
- the cluster configuration table of the mnode in
  `src/source/dnode/mnode/impl/src/mndConfig.c`.

Every module is written from the C source. `PROJECT.json` maps each
definition to the lines it translates. The TLC configurations (`*.cfg`)
check the modules on small, bounded instances.

## 1. The parts of the repository

| Part | Source | Modelled by | Status |
|---|---|---|---|
| TCP I/O thread and FdObj registry | rpcTcp.c 195-235, 405-613 | TcpWorker, TcpServer, TcpConnLifecycle, TcpStopCancel | partly |
| TCP server: init, acceptor, cleanup | rpcTcp.c 80-312, 545-575 | TcpServerInit, TcpServer | modelled |
| TCP client | rpcTcp.c 314-403 | TcpClient | modelled |
| RPC frame length arithmetic | rpcTcp.c 445-476 | TcpFramer, run inside TcpStopCancel | modelled |
| mnode config table | mndConfig.c | MndCfgCodec, MndCfgReq, MndCfgDeploy, MndConfig | partly |
| function classification flags | functionMgtInt.h | none | not modelled |
| snapshot sender and receiver | syncSnapshot.h | none | not modelled |
| client examples | connect_example.c, with_reqid_demo.c | none | not modelled |

### How the TCP parts interact

These threads run at the same time:

- **The accept thread.**
  - It opens the listening socket and loops on `accept`.
  - For each new socket it calls `taosMallocFdObj`. That function first `calloc`s the FdObj and adds it to epoll, so the I/O thread can see it from then on. It then links the FdObj at `pHead` under the mutex.
  - After that, the accept thread stores the peer's `ip` and `port` and advances `threadId`.
- **N I/O threads** (`taosProcessTcpData`). Each one loops in `epoll_wait`.
  - An event with ERR, RDHUP or HUP goes to `taosReportBrokenLink`. That function tests `closedByApp` once, without the mutex. If it is clear, the function shuts down the write side and tells the upper layer. It then frees the FdObj.
  - Any other event goes to `taosReadTcpData`, which reads one whole message and makes the upcall. If the upcall returns a NULL `thandle`, the FdObj is freed.
- **The upper layer.**
  - `taosCloseTcpConnection` sets `closedByApp` and shuts down the write side.
  - The client opens connections with `taosOpenTcpClientConnection`.
- **Cleanup** (`taosCleanUpTcpServer` and `taosCleanUpTcpClient`). It runs these steps:
  1. Set `stop`.
  2. Join the accept thread.
  3. For each I/O thread, `taosStopTcpThread`: add the always-readable `fd_event` to epoll, or `pthread_cancel` the thread if that fails. Then join the thread and drain its list with `taosFreeFdObj`.

The peer of each socket acts freely throughout. It may write, stop half-way
through a message, shut down, or reset.

### How the config table's parts interact

`mndInitConfig` registers two entry points:

- **The SDB table** (`SDB_CFG`).
  - Its `encodeFp`/`decodeFp` (`mnCfgActionEncode`/`mndCfgActionDecode`) turn an `SConfigItem` into a raw and back.
  - Its `deployFp` (`mndInitWriteCfg`) builds one transaction with a commit log per config item when the cluster is created.
- **The `TDMT_MND_CONFIG` handler** (`mndProcessConfigReq`). It answers a dnode's config request with the version, the verification flags and a config array.

## 2. Modules

| Module | What it models | How it is built |
|---|---|---|
| `TcpWorker` | One I/O thread's registry: the FdObj list, `numOfFds`, signatures, the epoll loop, `taosReadTcpData`'s control, `taosReportBrokenLink`, `taosFreeFdObj`, the upcall, and the app's `taosCloseTcpConnection`. It also models each socket's peer. | base module |
| `TcpServer` | The accept thread, `taosMallocFdObj`'s two phases, `taosCleanUpTcpServer`, and `taosStopTcpThread` on its normal path. It contains the refinement of `TcpConnLifecycle`. | EXTENDS TcpWorker |
| `TcpConnLifecycle` | The abstract per-connection promise: a connection opens once and closes once. The upper layer is told of a broken link at most once, only while the connection is open, and never after the upper layer closed it. A message is handed over only for an open connection the upper layer has not closed, so a close never overlaps a hand-over. | abstract spec |
| `TcpClient` | `taosOpenTcpClientConnection`, `taosCloseTcpConnection`, and `taosCleanUpTcpClient` with one I/O thread. | EXTENDS TcpWorker |
| `TcpServerInit` | `taosInitTcpServer` with every failure it handles (callocs, mutex init, epoll_create, pthread_create), and the cleanup it runs on failure. Two failures pass their tests undetected. A `pthread_mutex_init` error is positive, so `code < 0` misses it. `fd_event` is a `uint64_t` `eventfd_t`, so `fd_event < 0` misses a failed `eventfd`; that thread starts without a wake descriptor, and a later stop falls back to `pthread_cancel`. | standalone |
| `TcpStopCancel` | `taosStopTcpThread` when the `epoll_ctl` of `fd_event` fails and the I/O thread is cancelled. The mutex is explicit. So are the thread's cancellation points: `epoll_wait`, the header read, the `tError` after a failed malloc, the body read, the `tError` before `free(buffer)` after a short body read, the `close()` inside `taosFreeFdObj` while the mutex is held, and the log write after the unlock. Once `stop` is set, any return from `epoll_wait` ends the loop. Its `taosReadTcpData` is TcpFramer's: the header read, the malloc and the body read are separate steps, and `msgLen` is any value the peer sends. | INSTANCEs TcpFramer |
| `TcpFramer` | The arithmetic of `taosReadTcpData`: `msgLen` from the wire, `malloc(msgLen + tsRpcOverhead)`, and `leftLen = msgLen - headLen`. `int` is W-bit two's complement and `size_t` has 2W bits. | operators, instanced by TcpStopCancel |
| `MndCfgCodec` | `mnCfgActionEncode` and `mndCfgActionDecode` as operators. RECURSIVE `SetFields` and `GetAll` walk the fields and keep the SDB bounds checks. | operators |
| `MndCfgReq` | `mndProcessConfigReq`, one action per request. It records the operations on `diffArray` and the response. | standalone |
| `MndCfgDeploy` | `mndInitWriteCfg` and `mndSetCreateConfigCommitLogs`, step by step. | EXTENDS MndCfgCodec |
| `MndConfig` | The entry points `mndInitConfig` registers, interleaved: the deploy, the application of its commit logs once prepared (`decodeFp`, then `insertFp`, one log per step, into `rows`), and the request handler. | INSTANCEs MndCfgDeploy, MndCfgReq |
| `MC*` | The constant values the cfgs use. | EXTENDS the module |

### State correspondence (TcpWorker, TcpServer)

| Variable | Code |
|---|---|
| `fdobj[c]` | The FdObj of connection `c`: `none` (no socket yet), `live` (calloc'ed and in epoll), `freed` (`taosFreeFdObj` ran), `failed` (malloc or `epoll_ctl` failed). |
| `owner[c]`, `head[w]`, `next[c]`, `prev[c]`, `numOfFds[w]` | `pThreadObj`, `pHead`, `next`, `prev`, `numOfFds`. |
| `released[c]` | How many times `taosFreeFdObj` passed the signature check. |
| `closedByApp[c]`, `appHolds[c]` | `closedByApp`; whether the upper layer holds the FdObj as its chandle. |
| `notified[c]` | How many broken-link upcalls were made for `c`. |
| `addrSet[c]` | Whether `ip` and `port` have been written (line 295). |
| `stop[w]`, `evAdded[w]` | `pThreadObj->stop`; whether `fd_event` is in the epoll set. |
| `wpc[w]`, `batch[w]`, `rcpt[w]` | The I/O thread's program counter, the events left from `epoll_wait`, and `recvInfo`. `wpc` is `upcall` before `processData` of a message and `report` before `processData` of a broken-link notice. |
| `inbuf[c]`, `trunc[c]`, `sent[c]`, `peer[c]`, `wrShut[c]` | The socket: unread whole messages, a partial message, messages sent, the peer's state (`open`, `shut`, `reset`), and our `SHUT_WR`. |
| `acc`, `accConn`, `srvFd`, `rr`, `listenShut` | The accept thread: program counter, the FdObj between the two phases, `fd != -1`, `threadId`, `shutdown(SHUT_RD)`. |
| `cl`, `ci`, `srvStop` | Cleanup's program counter, its thread index, `pServerObj->stop`. |

Messages and addresses are abstracted to counts and flags. `Flags` computes
what epoll reports for `EPOLLIN | EPOLLRDHUP` from the socket's state:

- RDHUP once the peer has shut down;
- HUP once both directions are shut;
- ERR on a reset.

`taosReadMsg` blocks. It returns short only when the peer has shut down or
reset. A partial message therefore disables the read until
`PeerFinishWrite`.

### The refinement

`TcpServer` defines `Lifecycle == INSTANCE TcpConnLifecycle WITH ...`. The mapping is:

- `fdobj` `none` maps to `none`, `live` to `open`, and `freed` or `failed` to `closed`;
- `notified` maps to `notified[c] > 0`;
- `appClosed` maps to `closedByApp`;
- `handing[c]` holds while an I/O thread is in the upcall for `c` (`wpc = "upcall"`).

`LifecycleRefined == Lifecycle!LSpec` is the PROPERTY of server_close_race, and TLC finds it violated (section 3).

The abstract actions correspond to the code as follows:

| Abstract action | Code |
|---|---|
| `Open` | `taosMallocFdObj`'s calloc and `epoll_ctl ADD`, or their failure |
| `AppClose` | `taosCloseTcpConnection` |
| `Deliver` | `taosReadTcpData` with `closedByApp` clear, up to the upcall |
| `Delivered` | `processData` returns; a NULL `thandle` frees the FdObj in the same step |
| `ReportBroken` | `processData` of the broken-link notice and `taosFreeFdObj` (`NotifyBrokenLink`) |
| `Release` | every free without an upcall: after an app close, after a NULL `thandle`, and the cleanup drain |

### Environment assumptions

These are facts about the callers, outside `src/`:

- **The upper layer closes a connection only while it holds it, and before cleanup starts** (`AppClose` requires `cl = "idle"`). Without this, the app could close an FdObj that the cleanup drain had freed. See the hazard at rpcTcp.c:209.
- **The client's connector and cleanup do not overlap.**
- **For the config table, the SDB macros (`sdb.h` is not in this repository) are taken as:**
  - `SDB_SET_*` and `SDB_GET_*` fail, with `terrno` set, when `dataPos + width > dataLen`;
  - the raw has `sizeof(SConfigItem) + 63` bytes;
  - `sizeof(SConfigItem)` is 56 on x86-64.

## 3. Runs

| Run | Module / cfg | Expect | Distinct states | Checks |
|---|---|---|---|---|
| server_safety | MCTcpServer / TcpServerSafety.cfg | pass | 461,393 | `TypeOK`, `WakeEventNeverDispatched`, `DispatchOnlyLive`, `BrokenLinkOnce`, `CleanupTerminates`, `HangupReleased` |
| server_registry_race | MCTcpServer / TcpServerRegistry.cfg | violation | about 300 | `RegistryMatchesLive` |
| server_cleanup_acceptor | MCTcpServer / TcpServerJoinAcceptor.cfg | violation | about 170 | `CleanupJoinsAcceptor` |
| server_close_race | MCTcpServer / TcpServerCloseRace.cfg | violation | about 12,400 | `LifecycleRefined` |
| client_safety | MCTcpClient / TcpClientSafety.cfg | pass | 293,570 | `DispatchOnlyLive`, `ClientCleanupTerminates` |
| client_handle | MCTcpClient / TcpClientHandle.cfg | violation | about 310 | `AppHandlesLive` |
| server_init_cleanup | MCTcpServerInit / TcpServerInitSafety.cfg | pass | 1,628 | `FailedInitReleasesAll` |
| cfg_safety | MCMndConfig / MndConfigSafety.cfg | pass | 16,176 | `PreparedLogsInOrder`, `RspArrayLiveWhenSerialized`, `DecodeReadsLayout` |
| cfg_double_free | MCMndConfig / MndConfigDoubleFree.cfg | violation | 10 | `DiffArrayDestroyedOnce` |
| cfg_codec_decode | MCMndConfig / MndConfigDecode.cfg | violation | about 10,200 | `DecodeInvertsEncode` |
| stop_cancel_safety | MCTcpStopCancel / TcpStopCancelSafety.cfg | pass | 93,184 | `CancelLosesAtMostOne`, `WritesInBuffer` |
| stop_cancel_hang | MCTcpStopCancel / TcpStopCancelHang.cfg | violation | 93,184 | `StopTerminates` |

### What the passing runs show

**TCP server (server_safety).**

- The wake event is never dispatched as a connection. `taosStopTcpThread` sets `stop` before it adds `fd_event`.
- Only live FdObjs are dispatched, handed to the upcall or reported as broken. Cleanup drains a list only after `pthread_join`.
- Each FdObj is notified at most once, even when several error flags arrive in one event.
- Cleanup terminates.
- A hung-up connection is released unless its thread was stopped.

**The other passing runs.**

- **client_safety.** Only live FdObjs are dispatched on the client either, and `taosCleanUpTcpClient` terminates.
- **server_init_cleanup.** A failed `taosInitTcpServer` releases every mutex, descriptor and thread it created.
- **cfg_safety.**
  - A prepared deploy transaction holds the commit logs of the version item and of every global item that encoded, in array order.
  - For every commit log applied, decode's `SDB_GET_*` calls walk exactly the layout encode wrote. The logs include an INT64 of -1, a string that fills the raw to its last byte and a bool after it.
  - A `diffArray` sent in a response is serialized before it is destroyed.
- **stop_cancel_safety.**
  - If `taosStopTcpThread` returns after a cancel, at most one FdObj or one message buffer is lost. A buffer is lost only when the cancel comes in the body read or at the `tError` before `free(buffer)`: it does not exist at the header read or after a failed malloc.
  - Whatever 8-bit `msgLen` the peer sends, the body read and the header copy of every read the thread completes stay inside the malloc'ed buffer.

### What the violation runs show (`findings` in PROJECT.json)

- **`RegistryMatchesLive`** (rpcTcp.c:560).
  - A hangup can be handled between `taosMallocFdObj`'s `epoll_ctl ADD` and its linking.
  - In the trace, the I/O thread frees the FdObj before it is linked, so `numOfFds` drops to -1. The accept thread is left about to link the freed FdObj (`acc = "link"`).
- **`CleanupJoinsAcceptor`** (rpcTcp.c:244).
  - Cleanup can read `fd == -1` before the accept thread has opened the socket.
  - It then neither shuts the socket down nor joins the accept thread.
- **`LifecycleRefined`** (rpcTcp.c:487, 427).
  - In the trace, the I/O thread has read the second message and passed the `closedByApp` test. The app then closes the connection, which `TcpConnLifecycle` does not allow during a hand-over.
  - The upcall still delivers the message, and its result overwrites the `thandle` the close had cleared. The spec (4.4) says such a frame is discarded.
  - One message is not enough: the app holds a connection only after the first upcall.
  - The same race exists in `taosReportBrokenLink`. The unlocked `taosCloseTcpConnection` can run between the test at 427 and `processData` at 439, so the upper layer is told of a broken link on a connection it has closed. The model reaches it too (`wpc = "report"` with `closedByApp` set), after a trace of the same length.
- **`DiffArrayDestroyedOnce`** (mndConfig.c:215). A forceReadConfig request with equal arrays destroys `diffArray` at 201 and again at 215.
- **`DecodeInvertsEncode`** (mndConfig.c:154).
  - Decode sets `terrno` to OUT_OF_MEMORY and never clears it, so every decode returns NULL.
  - No config row can be applied from a commit log: the trace deploys, prepares, and applies the first log as NULL.
- **`AppHandlesLive`** (rpcTcp.c:392).
  - The client's `taosMallocFdObj` adds the socket to epoll before it links the FdObj. A peer that hangs up at once makes the I/O thread report the broken link and free the FdObj.
  - `taosOpenTcpClientConnection` then writes `thandle`, `port` and `ip` into the freed object and returns it as the caller's chandle.
- **`StopTerminates`** (rpcTcp.c:229).
  - A cancel delivered at the `close()` inside `taosFreeFdObj` leaves the mutex locked.
  - The drain then blocks forever. The log message mentions only data corruption.

### Violated properties without a run

Each property below is defined in its module, states what the source or the
spec says, and was found violated by TLC while modelling. None of them has a
run in this project. To reproduce one, use the module's MC instance with a cfg
that has the run's CONSTANTS, `SPECIFICATION Spec` and `INVARIANT <name>`.

| Property (module) | Where | What the code does |
|---|---|---|
| `ReceiptCarriesPeerAddr` (TcpServer) | rpcTcp.c:295 | `ip` and `port` are written after the FdObj is visible, so the first message can be delivered from 0:0. |
| `StartsWithStartedThreads` (TcpServerInit) | rpcTcp.c:185 | Any thread failure fails the whole server, unlike the comment at 169-170. |
| `ThreadsHaveMutex` (TcpServerInit) | rpcTcp.c:122 | A failed `pthread_mutex_init` (positive return) passes the `code < 0` test. |
| `RowMatchesItem`, `FloatTextFitsBuf` (MndConfig) | mndConfig.c:142, 75 | A float is never parsed back (`fval` decodes as 0, `buf` leaks); `"%f"` of `abs(fval) >= 1e22` overruns `buf[30]`. |
| `NoSuccessWithoutResponse` (MndCfgReq) | mndConfig.c:225 | A serialize failure returns success with no response. |
| `DeploySuccessMeansWritten` (MndCfgDeploy) | mndConfig.c:257 | `mndInitWriteCfg` returns success on every path. |
| `NoSignedOverflow` (TcpFramer, re-exported by TcpStopCancel) | rpcTcp.c:459 | `msgLen + tsRpcOverhead` overflows for a large peer-supplied `msgLen`. |

### Bounds

- **server_safety.**
  - Two I/O threads give round robin and cleanup's loop over several threads.
  - Two connections make the list non-trivial: `prev`, `next`, and a head with a successor.
  - `MaxMsgs = 1` reaches every read path (whole, partial and short reads) and the upcall.
  - Three connections do not finish in minutes.
- **TcpFramer, inside TcpStopCancel.**
  - `int` has 8 bits (`W = 8`) and `size_t` 16, with `sizeof(SRpcHead) = 6` and an overhead of 10.
  - Every value of the int is enumerated, so both overflow boundaries and the negative lengths are reached.
  - The arithmetic is the same at every width.
- **server_close_race.** The same instance with one I/O thread and `MaxMsgs = 2`: the race needs a second message after the upcall that gave the app its handle. server_safety stays at `MaxMsgs = 1`; with 2 it does not finish in 15 minutes.
- **MndConfig.**
  - The global config has six items, chosen on each side of the codec's limits: an INT64 of -1, a double whose `"%f"` text needs 31 bytes (`buf[30]`), a string that fills the raw's 119 bytes exactly, and a dir whose 102-byte path needs 4 + 6 + 4 + 4 + 102 = 120 bytes and cannot be encoded.
  - There is one dnode, because requests of different dnodes share no state, and two config versions.
  - Two dnodes give 387k states and change no result.
- **TcpStopCancel.**
  - Two linked connections suffice: one can be half-freed by the cancelled thread while the drain reaches the other.
  - Each read the thread starts takes any of the 256 values of `msgLen`, so the cancel can land at each cancellation point of the read, for every length.

### Fairness

- **TcpServer and TcpClient.**
  - Weak fairness on each I/O thread, the accept thread, the client's connector, and cleanup. Each is a running pthread, blocked only in `epoll_wait` or `accept`, which are enabling conditions in the model.
  - Weak fairness on `PeerFinishWrite`. A peer that started a message finishes it, which the blocking `taosReadMsg` relies on.
  - The rest of the environment gets no fairness: app closes, writes, shutdowns, resets, new connections and the start of cleanup.
- **TcpStopCancel.** Weak fairness on the I/O thread and on cleanup. A thread blocked on the mutex is not enabled, which is how the hang shows up.

## 4. Not modelled

- **`mndInitReadCfg`.** It is static and has no caller in the file, so it is dead code. Its loop bound `sz` is -1 after an empty scan.
- **`code = (mndTransAppendCommitlog(...) != 0)`** (mndConfig.c:299). This yields 1 rather than the error code. It has no observable effect, because callers only compare with 0.
- **The empty SDB callbacks, `mndInitConfig`'s registration with the SDB, and the transaction layer.** These are outside the repository. Their calls are abstracted to success or failure.
- **The thandle lost update between the upcall's write (537) and the app's (409).** The model tracks whether the app holds the FdObj, not thandle values. The race is shown by `LifecycleRefined` (run server_close_race).
- **The accept loop's busy spin on EMFILE (285).** It is not a state property.
- **`taosSendTcpData`.** It is not an app action; the peer's sends stand for the traffic. An app thread that sends on a chandle the I/O thread has just freed is therefore reached only as the client caller holding a freed chandle (`AppHandlesLive`, run client_handle).
- **The order of the error tests before the read (518).** A request followed by the peer's half-close arrives as IN and RDHUP in one event and is dropped. The model reaches this case, but the spec (4.3) prescribes it, so no property states otherwise.
- **functionMgtInt.h, syncSnapshot.h and the examples.** These are constants, declarations and sequential demos, with no behaviour to check.
