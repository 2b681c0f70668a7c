----------------------------- MODULE MCPageTable ----------------------------
(***************************************************************************)
(* Small instances of PageTable: the pages are split over two directory    *)
(* entries, so that a second-level table is created both before and after  *)
(* evictions have happened.                                                *)
(***************************************************************************)
EXTENDS PageTable, TLC

CONSTANTS p1, p2, p3, p4

MCPage == {p1, p2, p3, p4}
MCAccess == {"Load", "Store"}
MCDir    == {0, 1}
MCPGDIR_INDEX == [p \in MCPage |-> IF p \in {p3, p4} THEN 1 ELSE 0]

(* Pages of one directory entry are interchangeable: nothing orders them. *)
MCSymmetry == Permutations({p1, p2}) \cup Permutations({p3, p4})
=============================================================================
