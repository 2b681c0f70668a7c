------------------------------ MODULE MCMalloc ------------------------------
(***************************************************************************)
(* Two threads, a heap that three of the smaller blocks or one of each     *)
(* kind fill, and a break that lies, as in the code, inside the heap.  One *)
(* thread, with the same heap, for what the caller of one thread sees.     *)
(***************************************************************************)
EXTENDS Malloc

=============================================================================
