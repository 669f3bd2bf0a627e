------------------------------ MODULE MndCfgReq ------------------------------
(***************************************************************************)
(* mndProcessConfigReq of source/dnode/mnode/impl/src/mndConfig.c: the    *)
(* mnode's answer to a dnode's TDMT_MND_CONFIG request.  The handler runs *)
(* as one step; what it does to its local diffArray is recorded as the    *)
(* sequence of operations on it (init, serialize reads, destroys), and    *)
(* what the dnode gets back as the response.                              *)
(*                                                                         *)
(* The contents of config arrays are abstracted to whether the dnode's    *)
(* array differs from the mnode's (compareSConfigItemArrays); the calls   *)
(* into other files (deserialize, serialize, rpcMallocCont) succeed or    *)
(* fail nondeterministically.                                              *)
(***************************************************************************)
EXTENDS Integers, Sequences, FiniteSets

CONSTANTS
  Dnodes,     \* the dnodes sending requests
  Versions,   \* config versions (cver, tsmmConfigVersion)
  NULL

VARIABLES
  tsmmConfigVersion,  \* the mnode's config version
  diffOps,            \* per dnode: the operations on diffArray of the last request
  rsp,                \* per dnode: the response of the last request, or NULL
  ret                 \* per dnode: the handler's return code, or NULL

vars == <<tsmmConfigVersion, diffOps, rsp, ret>>

Init ==
  /\ tsmmConfigVersion \in Versions
  /\ diffOps = [d \in Dnodes |-> << >>]
  /\ rsp = [d \in Dnodes |-> NULL]
  /\ ret = [d \in Dnodes |-> NULL]

(* A request as tDeserializeSConfigReq leaves it; its result is not      *)
(* checked, so a failed deserialize leaves the zeroed configReq.          *)
Requests ==
  [forceReadConfig : BOOLEAN, cver : Versions, differs : BOOLEAN]
ZeroReq == [forceReadConfig |-> FALSE, cver |-> 0, differs |-> FALSE]

(* Variant: diffArray destroyed before the response is serialized. *)
DestroyBeforeSerialize(force, differs, reads) ==
  <<"init">> \o (IF force /\ ~differs THEN <<"destroy">> ELSE << >>)
  \o <<"destroy">> \o reads

(* The operations on diffArray, in order: taosArrayInit; in the          *)
(* forceReadConfig branch with equal arrays taosArrayDestroy; the two    *)
(* tSerializeSConfigRsp calls read it when it is configRsp.array; then   *)
(* taosArrayDestroy again, unconditionally.                               *)
DiffArrayOps(force, differs, reads) ==
  <<"init">> \o (IF force /\ ~differs THEN <<"destroy">> ELSE << >>)
  \o reads \o <<"destroy">>

(* mndProcessConfigReq for a request of dnode d. *)
ProcessConfigReq(d) ==
  \E req \in Requests, deserOk, serOk, mallocOk \in BOOLEAN :
    LET r == IF deserOk THEN req ELSE ZeroReq
        force == r.forceReadConfig
        array == IF force THEN (IF r.differs THEN "diff" ELSE NULL) ELSE "global"
        reads == IF array = "diff" THEN <<"read", "read">> ELSE << >>
    IN
    /\ diffOps' = [diffOps EXCEPT ![d] = DiffArrayOps(force, r.differs, reads)]
    /\ rsp' = [rsp EXCEPT ![d] =
         IF ~serOk THEN NULL
         ELSE [array |-> array,
               cver |-> tsmmConfigVersion,
               isConifgVerified |-> force /\ ~r.differs,
               isVersionVerified |-> ~force /\ r.cver = tsmmConfigVersion,
               cont |-> mallocOk]]
    /\ ret' = [ret EXCEPT ![d] = "SUCCESS"]
    /\ UNCHANGED tsmmConfigVersion

Next == \E d \in Dnodes : ProcessConfigReq(d)

Spec == Init /\ [][Next]_vars

-----------------------------------------------------------------------------
(* Positions of an operation in a dnode's diffArray log. *)
At(d, op) == {i \in 1..Len(diffOps[d]) : diffOps[d][i] = op}

(* When the response carries diffArray, tSerializeSConfigRsp reads it   *)
(* while it is still allocated: no read comes after a destroy.           *)
RspArrayLiveWhenSerialized ==
  \A d \in Dnodes : \A i \in At(d, "read"), j \in At(d, "destroy") : i < j

(* diffArray is destroyed exactly once on every path through the handler. *)
DiffArrayDestroyedOnce ==
  \A d \in Dnodes : diffOps[d] # << >> => Cardinality(At(d, "destroy")) = 1

(* A handler that returns success has built a response for the dnode;  *)
(* code = contLen at the serialize failure is meant to be returned.      *)
NoSuccessWithoutResponse ==
  \A d \in Dnodes : ret[d] = "SUCCESS" => rsp[d] # NULL
=============================================================================
