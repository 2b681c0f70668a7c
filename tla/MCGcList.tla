------------------------------ MODULE MCGcList ------------------------------
(***************************************************************************)
(* The collector with four chunks: enough for two unused ones at the head  *)
(* of the list and one in use, for a freed one to be allocated again, and  *)
(* for a print while two nodes exist.                                      *)
(***************************************************************************)
EXTENDS GcList, TLC

CONSTANTS c1, c2, c3, c4, v1, v2

MCChunk == {c1, c2, c3, c4}
MCValue == {v1, v2}

(* Neither addresses nor values are ever compared for order. *)
MCSymmetry == Permutations(MCChunk) \cup Permutations(MCValue)
=============================================================================
