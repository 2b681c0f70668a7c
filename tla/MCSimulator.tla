----------------------------- MODULE MCSimulator ----------------------------
(***************************************************************************)
(* The simulator on every trace of loads over four pages, with three       *)
(* frames, under each policy.  No policy looks at the kind of a reference, *)
(* so stores, which PageTable's own run has, are left out here.            *)
(***************************************************************************)
EXTENDS Simulator

CONSTANTS p1, p2, p3, p4

MCPage   == {p1, p2, p3, p4}
MCAccess == {"Load"}
MCDir    == {0, 1}
MCPGDIR_INDEX == [p \in MCPage |-> IF p \in {p3, p4} THEN 1 ELSE 0]
MCAlg    == {"rand", "lru", "fifo", "clock"}
=============================================================================
