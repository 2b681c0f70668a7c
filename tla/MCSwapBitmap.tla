---------------------------- MODULE MCSwapBitmap ----------------------------
(***************************************************************************)
(* Words of three bits, and every number of slots that needs up to three   *)
(* of them: none, whole words only, and a last word with one or two slots. *)
(***************************************************************************)
EXTENDS SwapBitmap

MCSizes == 0 .. 7
=============================================================================
