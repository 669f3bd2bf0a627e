----------------------------- MODULE MCMndConfig -----------------------------
EXTENDS MndConfig

(* 64-bit layout of SConfigItem (tconfig.h): 56 bytes, so a raw holds 119. *)
ItemSize == 56
NameLenSet == {1, 12}
StrLenSet == {0, 95, 96}
IntValSet == {0, -1}
FloatDigitSet == {0, 1, 21, 22}

(* The global config: an INT32, an INT64 of -1 (its 8 bytes read back *)
(* as 8), a DOUBLE of 22 negative integer digits (its "%f" text needs 31  *)
(* bytes), a STRING that fills the raw to its last byte (95 bytes after   *)
(* a 12-byte name), a DIR ("logDir") whose 102-byte path needs 120,     *)
(* and a BOOL.                                                             *)
GlobalItems ==
  << [ZeroItem EXCEPT !.name = 9, !.dtype = "int32", !.i32 = 131],
     [ZeroItem EXCEPT !.name = 12, !.dtype = "int64", !.i64 = -1],
     [ZeroItem EXCEPT !.name = 9, !.dtype = "double",
                      !.fval = [neg |-> TRUE, digits |-> 22]],
     [ZeroItem EXCEPT !.name = 12, !.dtype = "string", !.str = 95],
     [ZeroItem EXCEPT !.name = 6, !.dtype = "dir", !.str = 102],
     [ZeroItem EXCEPT !.name = 12, !.dtype = "bool", !.bval = TRUE] >>

(* Requests of different dnodes share no state (each has its own        *)
(* diffArray and response), so one dnode shows every interleaving that    *)
(* matters.                                                                *)
OneDnode == {"d1"}
(* 0 is also what a failed deserialize leaves in cver. *)
TwoVersions == {0, 1}
=============================================================================
