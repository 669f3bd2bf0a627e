----------------------------- MODULE MndCfgDeploy -----------------------------
(***************************************************************************)
(* mndInitWriteCfg and mndSetCreateConfigCommitLogs of                    *)
(* source/dnode/mnode/impl/src/mndConfig.c: the deployFp of the config    *)
(* table, run once when the cluster is first deployed.  It builds one     *)
(* transaction with a commit log per config item (the config version     *)
(* first), checks it for conflicts and prepares it.                        *)
(*                                                                         *)
(* The transaction layer (mndTrans.c, not part of this repository) is     *)
(* abstracted to the outcome of each call: sdbAllocRaw, mndTransCreate,   *)
(* mndTransAppendCommitlog, mndTransCheckConflict and mndTransPrepare     *)
(* each succeed or fail.  An encode also fails, deterministically, when   *)
(* the item does not fit in the raw (Encode of MndCfgCodec).              *)
(***************************************************************************)
EXTENDS MndCfgCodec

CONSTANT GlobalCfg   \* getGlobalCfg(tsCfg): the sequence of config items

(* The item for tsmmConfigVersion: an INT32 named by the 17 bytes of    *)
(* "tsmmConfigVersion"; its value plays no part in what is checked.      *)
VersionItem == [ZeroItem EXCEPT !.name = 17, !.dtype = "int32"]

(* The items in the order mndInitWriteCfg appends them. *)
AllItems == <<VersionItem>> \o GlobalCfg

VARIABLES
  pc,       \* "create", "version", "loop", "conflict", "prepare", "drop", "done"
  i,        \* index into AllItems of the next item to append
  logs,     \* the items whose commit log the transaction holds
  failed,   \* indices into AllItems whose mndSetCreateConfigCommitLogs failed
  trans,    \* "none" (mndTransCreate failed), "created", "prepared"
  ret       \* the return value, or NULL while running

vars == <<pc, i, logs, failed, trans, ret>>

Init ==
  /\ pc = "create"
  /\ i = 1
  /\ logs = << >>
  /\ failed = {}
  /\ trans = "none"
  /\ ret = NULL

(* mndSetCreateConfigCommitLogs for item AllItems[k]: encode (failing if *)
(* sdbAllocRaw fails or the item does not fit), append the commit log,   *)
(* set the raw READY.  sdbSetRawStatus cannot fail on a non-NULL raw.     *)
(* A failure is logged by the caller and the loop goes on.               *)
SetCreateConfigCommitLogs(k) ==
  \E allocOk, appendOk \in BOOLEAN :
    IF allocOk /\ Encode(AllItems[k]) # NULL /\ appendOk
    THEN logs' = Append(logs, AllItems[k]) /\ UNCHANGED failed
    ELSE failed' = failed \cup {k} /\ UNCHANGED logs

TransCreate ==
  /\ pc = "create"
  /\ \/ trans' = "created" /\ pc' = "version"
     \/ pc' = "drop" /\ UNCHANGED trans
  /\ UNCHANGED <<i, logs, failed, ret>>

(* Variant: the loop over the global config starts at its second item. *)
SetVersionLogSkipFirst ==
  /\ pc = "version"
  /\ SetCreateConfigCommitLogs(1)
  /\ i' = 3
  /\ pc' = "loop"
  /\ UNCHANGED <<trans, ret>>

(* The version item, then sz = taosArrayGetSize and the loop from 0. *)
SetVersionLog ==
  /\ pc = "version"
  /\ SetCreateConfigCommitLogs(1)
  /\ i' = 2
  /\ pc' = "loop"
  /\ UNCHANGED <<trans, ret>>

(* One iteration of the loop over the global config. *)
SetItemLog ==
  /\ pc = "loop"
  /\ i <= Len(AllItems)
  /\ SetCreateConfigCommitLogs(i)
  /\ i' = i + 1
  /\ UNCHANGED <<pc, trans, ret>>

(* After the loop, whatever the loop's code: mndTransCheckConflict, then *)
(* mndTransPrepare; either failing goes to _OVER.                        *)
CheckConflict ==
  /\ pc = "loop"
  /\ i > Len(AllItems)
  /\ pc' \in {"prepare", "drop"}
  /\ UNCHANGED <<i, logs, failed, trans, ret>>

TransPrepare ==
  /\ pc = "prepare"
  /\ \/ trans' = "prepared"
     \/ UNCHANGED trans
  /\ pc' = "drop"
  /\ UNCHANGED <<i, logs, failed, ret>>

(* _OVER: mndTransDrop, and TSDB_CODE_SUCCESS on every path. *)
TransDrop ==
  /\ pc = "drop"
  /\ ret' = "SUCCESS"
  /\ pc' = "done"
  /\ UNCHANGED <<i, logs, failed, trans>>

Done == pc = "done" /\ UNCHANGED vars

Next ==
  TransCreate \/ SetVersionLog \/ SetItemLog \/ CheckConflict \/ TransPrepare
  \/ TransDrop \/ Done

Spec == Init /\ [][Next]_vars

-----------------------------------------------------------------------------
(* The items of s at the indices not in drop, in order. *)
Kept(s, drop) ==
  LET idx == SelectSeq([j \in 1..Len(s) |-> j], LAMBDA j : j \notin drop)
  IN [k \in 1..Len(idx) |-> s[idx[k]]]

(* A prepared transaction holds the commit logs of the version item and  *)
(* of the global config, in array order, each once, missing exactly the  *)
(* items whose mndSetCreateConfigCommitLogs failed.                      *)
PreparedLogsInOrder ==
  trans = "prepared" => logs = Kept(AllItems, failed)

(* sdbDeploy learns of a failed deploy from deployFp's return value: a   *)
(* success means the config table was fully written.                     *)
DeploySuccessMeansWritten ==
  ret = "SUCCESS" => trans = "prepared" /\ failed = {}
=============================================================================
