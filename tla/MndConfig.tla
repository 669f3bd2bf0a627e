------------------------------ MODULE MndConfig ------------------------------
(***************************************************************************)
(* The config table of the mnode as mndInitConfig                          *)
(* (source/dnode/mnode/impl/src/mndConfig.c) sets it up: the SDB table     *)
(* whose deployFp writes the initial config (MndCfgDeploy) and whose       *)
(* decodeFp and insertFp apply that config's commit logs, and the          *)
(* TDMT_MND_CONFIG handler answering the dnodes (MndCfgReq).  The handler *)
(* shares no state with the table in the model (it reads the global       *)
(* config and tsmmConfigVersion, which deploy does not change), so its    *)
(* steps interleave freely with the table's.                              *)
(*                                                                         *)
(* Applying a prepared transaction (mndTrans.c and sdb.c, not part of     *)
(* this repository) is abstracted to its effect on this table: each       *)
(* commit log, in order, goes through decodeFp and then insertFp.         *)
(***************************************************************************)
EXTENDS MndCfgCodec
LOCAL INSTANCE SequencesExt

CONSTANTS GlobalCfg, Dnodes, Versions

VARIABLES
  pc, i, logs, failed, trans, ret,         \* mndInitWriteCfg
  rows,                                    \* the rows decodeFp returned
  tsmmConfigVersion, diffOps, rsp, reqRet  \* mndProcessConfigReq

Deploy == INSTANCE MndCfgDeploy
Req == INSTANCE MndCfgReq WITH ret <- reqRet

deployVars == <<pc, i, logs, failed, trans, ret>>
reqVars == <<tsmmConfigVersion, diffOps, rsp, reqRet>>
vars == <<deployVars, rows, reqVars>>

(* sdbSetTable registers the table and mndSetMsgHandle the handler. *)
Init == Deploy!Init /\ rows = << >> /\ Req!Init

(* The next commit log of the prepared deploy transaction is applied:    *)
(* mndCfgActionDecode makes a row of its raw, and mndCfgActionInsert     *)
(* does nothing but trace and return 0.                                   *)
ApplyCommitLog ==
  /\ pc = "done"
  /\ trans = "prepared"
  /\ Len(rows) < Len(logs)
  /\ rows' = Append(rows, Decode(Encode(logs[Len(rows) + 1])))
  /\ UNCHANGED <<deployVars, reqVars>>

Next ==
  \/ Deploy!Next /\ UNCHANGED <<rows, reqVars>>
  \/ ApplyCommitLog
  \/ Req!Next /\ UNCHANGED <<deployVars, rows>>

Spec == Init /\ [][Next]_vars

-----------------------------------------------------------------------------
(* The bytes encode wrote: the cursor dataPos after its last SDB_SET. *)
EncodedLen(pRaw) ==
  FoldLeft(LAMBDA acc, f : acc + Width(f.t, f.v), 0, pRaw.data)

(* Whatever mndCfgActionDecode does with the result, its SDB_GET_* calls *)
(* walk the layout mnCfgActionEncode wrote for every applied commit log: *)
(* each read finds a field of its own type and width, none runs past the *)
(* data length, and the last ends where encode's last write ended.       *)
DecodeReadsLayout ==
  \A k \in 1..Len(rows) :
    LET raw == Encode(logs[k])
        d == DecodeReads(raw)
    IN  /\ d.ok
        /\ d.pos = EncodedLen(raw)
        /\ \A j \in 1..Len(d.vals) : d.vals[j].match

(* The SDB table contract: decodeFp turns the raw encodeFp made of an    *)
(* item back into that item, so the applied rows are the deployed items. *)
DecodeInvertsEncode ==
  \A k \in 1..Len(rows) : rows[k] = logs[k]

(* Apart from the result code, the row object decode fills in carries   *)
(* every field of the encoded item.                                       *)
RowMatchesItem ==
  \A k \in 1..Len(rows) : DecodedItem(Encode(logs[k])) = logs[k]

(* sprintf(buf, "%f", fval) in mnCfgActionEncode stays inside char       *)
(* buf[30] for every item deploy has encoded.                             *)
FloatTextFitsBuf ==
  \A k \in 1..(i - 1) : FloatTextLen(Deploy!AllItems[k]) <= BUF_SIZE

(* A prepared deploy transaction holds the commit logs of the version    *)
(* item and of every global config item that encoded, in array order.    *)
PreparedLogsInOrder == Deploy!PreparedLogsInOrder

(* mndProcessConfigReq serializes diffArray, when it is the response     *)
(* array, before it destroys it.                                           *)
RspArrayLiveWhenSerialized == Req!RspArrayLiveWhenSerialized

(* mndProcessConfigReq destroys diffArray exactly once on every path.    *)
DiffArrayDestroyedOnce == Req!DiffArrayDestroyedOnce
=============================================================================
