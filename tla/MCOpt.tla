-------------------------------- MODULE MCOpt -------------------------------
(***************************************************************************)
(* opt with two frames on every trace of MaxRefs lines over three pages.   *)
(***************************************************************************)
EXTENDS Opt

CONSTANTS p1, p2, p3

MCPage   == {p1, p2, p3}
MCAccess == {"Load"}
MCDir    == {0, 1}
MCPGDIR_INDEX == [p \in MCPage |-> IF p = p3 THEN 1 ELSE 0]
=============================================================================
