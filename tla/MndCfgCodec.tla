----------------------------- MODULE MndCfgCodec -----------------------------
(***************************************************************************)
(* The SDB row codec of the mnode config table, mnCfgActionEncode and     *)
(* mndCfgActionDecode of source/dnode/mnode/impl/src/mndConfig.c.         *)
(*                                                                         *)
(* A pRaw is its software version, its data length (the size asked of      *)
(* sdbAllocRaw) and the fields written into it, in order.  A field is a   *)
(* type and a value; the bytes of a name, a string or a formatted float   *)
(* are abstracted to their length.  The SDB_SET_* and SDB_GET_* macros    *)
(* (sdb.h, not part of this repository) write or read one field at the   *)
(* cursor dataPos and jump to _OVER, with terrno set, when the field does  *)
(* not fit in the data length; a read past the written fields but inside  *)
(* the data length reads the zeroed reserve.                               *)
(***************************************************************************)
EXTENDS Integers, Sequences, FiniteSets
LOCAL INSTANCE SequencesExt

CONSTANTS
  SizeofItem,   \* sizeof(SConfigItem)
  NameLens,     \* the lengths of item names tried
  StrLens,      \* the lengths of string values tried
  IntVals,      \* the values of i32 and i64 tried
  FloatDigits,  \* the numbers of integer digits of fval tried (0: fval = 0)
  NULL

CFG_VER_NUMBER == 1
CFG_RESERVE_SIZE == 63
BUF_SIZE == 30          \* char buf[30] of mnCfgActionEncode

FloatTypes == {"float", "double"}
StrTypes == {"string", "dir", "locale", "charset", "timezone"}
DTypes == {"none", "bool", "int32", "int64"} \cup FloatTypes \cup StrTypes

(* fval as the text "%f" makes of it: a sign and the integer digits;   *)
(* "%f" always adds a point and six decimals.                           *)
FVals == [neg : BOOLEAN, digits : FloatDigits]
FZero == [neg |-> FALSE, digits |-> 0]
FmtLen(f) == (IF f.neg THEN 1 ELSE 0) + (IF f.digits = 0 THEN 1 ELSE f.digits) + 7

(* A calloc'ed SConfigItem, and the items a config table can hold. *)
ZeroItem == [name |-> 0, dtype |-> "none", bval |-> FALSE, i32 |-> 0, i64 |-> 0,
             fval |-> FZero, str |-> 0]
Items ==
  LET It(n, t) == [ZeroItem EXCEPT !.name = n, !.dtype = t] IN
  UNION { {It(n, "none")}
          \cup {[It(n, "bool") EXCEPT !.bval = b] : b \in BOOLEAN}
          \cup {[It(n, "int32") EXCEPT !.i32 = v] : v \in IntVals}
          \cup {[It(n, "int64") EXCEPT !.i64 = v] : v \in IntVals}
          \cup {[It(n, t) EXCEPT !.fval = f] : t \in FloatTypes, f \in FVals}
          \cup {[It(n, t) EXCEPT !.str = s] : t \in StrTypes, s \in StrLens}
        : n \in NameLens }

Width(t, v) == CASE t = "bool" -> 1 [] t = "i32" -> 4 [] t = "i64" -> 8
                 [] t = "bin" -> v
F(t, v) == [t |-> t, v |-> v]

-----------------------------------------------------------------------------
(* The fields mnCfgActionEncode writes, in order: the name's length and *)
(* bytes, the dtype, and the value by the switch on dtype.               *)
EncodeFields(pItem) ==
  <<F("i32", pItem.name), F("bin", pItem.name), F("i32", pItem.dtype)>>
  \o CASE pItem.dtype = "none"       -> << >>
       [] pItem.dtype = "bool"       -> <<F("bool", pItem.bval)>>
       [] pItem.dtype = "int32"      -> <<F("i32", pItem.i32)>>
       [] pItem.dtype = "int64"      -> <<F("i64", pItem.i64)>>
       [] pItem.dtype \in FloatTypes -> <<F("i32", FmtLen(pItem.fval)), F("bin", FmtLen(pItem.fval))>>
       [] pItem.dtype \in StrTypes   -> <<F("i32", pItem.str), F("bin", pItem.str)>>

(* The SDB_SET_* sequence: write fields while they fit; the first that *)
(* does not fit fails the encode.                                        *)
RECURSIVE SetFields(_, _, _)
SetFields(pRaw, pos, fs) ==
  IF fs = << >> THEN pRaw
  ELSE IF pos + Width(Head(fs).t, Head(fs).v) > pRaw.dataLen THEN NULL
  ELSE SetFields([pRaw EXCEPT !.data = Append(@, Head(fs))],
                 pos + Width(Head(fs).t, Head(fs).v), Tail(fs))

(* mnCfgActionEncode, sdbAllocRaw succeeding: terrno is cleared only   *)
(* after the last field is written, so any failed write returns NULL.    *)
Encode(pItem) ==
  SetFields([sver |-> CFG_VER_NUMBER, dataLen |-> SizeofItem + CFG_RESERVE_SIZE,
             data |-> << >>], 0, EncodeFields(pItem))

(* "%f" into buf[30] writes FmtLen + 1 bytes. *)
FloatTextLen(pItem) == IF pItem.dtype \in FloatTypes THEN FmtLen(pItem.fval) + 1 ELSE 0

-----------------------------------------------------------------------------
(* One SDB_GET_*: read a field of type t and width w at field index k,  *)
(* byte position pos.  ok: inside the data length; match: the field     *)
(* there was written with this type and width (or pItem is the reserve).   *)
Get(pRaw, k, pos, t, w) ==
  [ok    |-> pos + w <= pRaw.dataLen,
   v     |-> IF k <= Len(pRaw.data) THEN pRaw.data[k].v ELSE 0,
   match |-> k > Len(pRaw.data)
             \/ (pRaw.data[k].t = t /\ Width(t, pRaw.data[k].v) = w)]

(* Variant: the INT64 case read with SDB_GET_INT32. *)
ValueReadsInt64AsInt32(dt) ==
  CASE dt = "bool"                    -> <<"bool">>
    [] dt \in {"int32", "int64"}      -> <<"i32">>
    [] dt \in FloatTypes \cup StrTypes -> <<"lenbin">>
    [] OTHER                          -> << >>

(* The reads of the value, chosen by the dtype read: a fixed-width     *)
(* field, or a length followed by that many bytes ("lenbin").           *)
ValueReads(dt) ==
  CASE dt = "bool"       -> <<"bool">>
    [] dt = "int32"      -> <<"i32">>
    [] dt = "int64"      -> <<"i64">>
    [] dt \in FloatTypes -> <<"lenbin">>
    [] dt \in StrTypes   -> <<"lenbin">>
    [] OTHER             -> << >>

(* Perform reads from field k, byte pos; stop at the first that fails. *)
RECURSIVE GetAll(_, _, _, _, _)
GetAll(pRaw, k, pos, rs, acc) ==
  IF rs = << >> THEN [ok |-> TRUE, k |-> k, pos |-> pos, vals |-> acc]
  ELSE IF Head(rs) = "lenbin"
  THEN LET l == Get(pRaw, k, pos, "i32", 4)
           len == IF l.v \in Int THEN l.v ELSE 0   \* bytes of another field
           b == Get(pRaw, k + 1, pos + 4, "bin", len)
       IN IF ~l.ok \/ ~b.ok THEN [ok |-> FALSE, vals |-> acc]
          ELSE GetAll(pRaw, k + 2, pos + 4 + len, Tail(rs), acc \o <<l, b>>)
  ELSE LET g == Get(pRaw, k, pos, Head(rs), Width(Head(rs), 0)) IN
       IF ~g.ok THEN [ok |-> FALSE, vals |-> acc]
       ELSE GetAll(pRaw, k + 1, pos + Width(Head(rs), 0), Tail(rs), acc \o <<g>>)

(* The reads of mndCfgActionDecode: name, dtype, then the value. *)
DecodeReads(pRaw) ==
  LET hd == GetAll(pRaw, 1, 0, <<"lenbin", "i32">>, << >>) IN
  IF ~hd.ok THEN hd
  ELSE GetAll(pRaw, hd.k, hd.pos, ValueReads(hd.vals[3].v), hd.vals)

(* The row object decode fills in: the FLOAT/DOUBLE case reads the text *)
(* into a malloc'ed buf and never sets fval.                            *)
DecodedItem(pRaw) ==
  LET r == DecodeReads(pRaw).vals
      dt == r[3].v
  IN [ZeroItem EXCEPT !.name = r[1].v, !.dtype = dt,
        !.bval = IF dt = "bool" THEN r[4].v ELSE @,
        !.i32 = IF dt = "int32" THEN r[4].v ELSE @,
        !.i64 = IF dt = "int64" THEN r[4].v ELSE @,
        !.str = IF dt \in StrTypes THEN r[4].v ELSE @]

(* mndCfgActionDecode: terrno is set to OUT_OF_MEMORY at the start and   *)
(* is changed only by a failure, so the test at _OVER sees pItem non-zero.  *)
DecodeTerrno(pRaw) ==
  IF pRaw.sver # CFG_VER_NUMBER THEN "SDB_INVALID_DATA_VER"
  ELSE IF ~DecodeReads(pRaw).ok THEN "INVALID_PARA"
  ELSE "OUT_OF_MEMORY"
Decode(pRaw) == IF DecodeTerrno(pRaw) # "SUCCESS" THEN NULL ELSE DecodedItem(pRaw)
=============================================================================
