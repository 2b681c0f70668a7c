------------------------------ MODULE MCShell -------------------------------
(***************************************************************************)
(* Two names, and paths that lead down, up and to the root.                *)
(***************************************************************************)
EXTENDS Shell

MCPath ==
    { [abs |-> FALSE, parts |-> <<"a">>], [abs |-> TRUE,  parts |-> <<"a", "b">>],
      [abs |-> FALSE, parts |-> <<"..">>], [abs |-> TRUE,  parts |-> <<"">>] }
=============================================================================
