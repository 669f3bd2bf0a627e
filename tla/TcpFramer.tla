------------------------------- MODULE TcpFramer -------------------------------
(***************************************************************************)
(* The length arithmetic of taosReadTcpData (src/src/rpc/src/rpcTcp.c):   *)
(* the header is read, msgLen is taken from it as a signed int, a buffer *)
(* of msgLen + tsRpcOverhead bytes is malloc'ed, the rest of the message *)
(* (leftLen = msgLen - headLen bytes) is read at msg + headLen, and the   *)
(* header is copied to msg = buffer + tsRpcOverhead.                      *)
(*                                                                         *)
(* int is a W-bit two's complement integer and size_t has 2W bits, so the *)
(* wrap-around of the build (the x86-64 result of a signed overflow) and  *)
(* the conversion of a negative int to size_t are kept; W is a constant   *)
(* because TLC's own integers are 32-bit.  The written bytes are tracked  *)
(* as offsets into the buffer.                                             *)
(***************************************************************************)
EXTENDS Integers

CONSTANTS
  W,          \* bits of an int
  HeadLen,    \* sizeof(SRpcHead)
  Overhead,   \* tsRpcOverhead
  MaxAlloc    \* the largest size malloc can return memory for

IntMin == -(2^(W - 1))
IntMax == 2^(W - 1) - 1

(* The int result of an int addition or subtraction, as the build wraps it. *)
IntOf(x) == ((x - IntMin) % 2^W) + IntMin
(* The size_t a negative int converts to. *)
SizeOf(x) == x % 2^(2 * W)

(* msgLen is any int: the peer chooses the bytes. *)
WireLens == IntMin..IntMax

(* taosReadMsg(fd, buf, n): nothing for n <= 0; otherwise n bytes, or     *)
(* fewer when the peer has shut down or reset.                             *)
ReadResults(n) == IF n <= 0 THEN {0} ELSE {0, n - 1, n}

VARIABLES
  msgLen,    \* (int32_t)htonl(rpcHead.msgLen)
  size,      \* the size passed to malloc, or -1 before
  writes,    \* the [first, last] offsets into buffer written so far
  result,    \* "pending", "error" or "ok"
  pc         \* "alloc", "read", "done"

vars == <<msgLen, size, writes, result, pc>>

Init ==
  /\ msgLen \in WireLens
  /\ size = -1
  /\ writes = {}
  /\ result = "pending"
  /\ pc = "alloc"

(* Variant: the buffer sized for the message alone. *)
MallocSizeNoOverhead == SizeOf(msgLen)

(* malloc(msgLen + tsRpcOverhead): an int sum converted to size_t. *)
MallocSize == SizeOf(IntOf(msgLen + Overhead))

(* malloc may fail for any size; it cannot succeed beyond MaxAlloc. *)
Alloc ==
  /\ pc = "alloc"
  /\ size' = MallocSize
  /\ \/ result' = "error" /\ pc' = "done"
     \/ MallocSize <= MaxAlloc /\ pc' = "read" /\ UNCHANGED result
  /\ UNCHANGED <<msgLen, writes>>

(* Variant: the whole message length read after the header. *)
LeftLenNoHead == msgLen

(* leftLen = msgLen - headLen, an int difference. *)
LeftLen == IntOf(msgLen - HeadLen)

(* leftLen bytes read at msg + headLen; on a short read the *)
(* buffer is freed; otherwise the header is copied to msg.                 *)
ReadBody ==
  /\ pc = "read"
  /\ LET at == Overhead + HeadLen IN
     \E retLen \in ReadResults(LeftLen) :
       /\ writes' = writes \cup (IF retLen > 0 THEN {<<at, at + retLen - 1>>} ELSE {})
                            \cup (IF LeftLen = retLen
                                  THEN {<<Overhead, Overhead + HeadLen - 1>>} ELSE {})
       /\ result' = IF LeftLen = retLen THEN "ok" ELSE "error"
  /\ pc' = "done"
  /\ UNCHANGED <<msgLen, size>>

Done == pc = "done" /\ UNCHANGED vars

Next == Alloc \/ ReadBody \/ Done

Spec == Init /\ [][Next]_vars

-----------------------------------------------------------------------------
(* Whatever length the peer puts in the header, taosReadTcpData writes   *)
(* only inside the buffer it allocated: the body read at msg + headLen    *)
(* and the header copied to msg both end before buffer + size.            *)
WritesInBuffer ==
  \A w \in writes : 0 <= w[1] /\ w[2] < size

(* msgLen + tsRpcOverhead at the malloc is computed without signed       *)
(* overflow, which C leaves undefined.                                    *)
NoSignedOverflow ==
  pc # "alloc" => msgLen + Overhead <= IntMax
=============================================================================
