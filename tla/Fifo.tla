-------------------------------- MODULE Fifo --------------------------------
(***************************************************************************)
(* Replacement by -a fifo (fifo.c of CSC369/Virtual Memory).  No queue is  *)
(* kept: frames are filled in ascending order, so cycling through them is  *)
(* the order in which their pages were loaded.                             *)
(*                                                                         *)
(* Hit(f), Load(f) and Replace(f) are a policy's part of a reference that  *)
(* ends in frame f: on a hit and on a miss that took a free frame ref_fcn  *)
(* is called; on a miss that evicted, evict_fcn returned f before that.    *)
(***************************************************************************)
EXTENDS Integers

CONSTANT memsize
VARIABLE csize          \* the next frame to evict, or memsize for frame 0

Init == csize = 0

Hit(f)  == UNCHANGED csize       \* fifo_ref does nothing
Load(f) == UNCHANGED csize

\* Mutant: frame 0 comes round one eviction early.
NextVictimLate == IF csize >= memsize - 1 THEN 0 ELSE csize + 1

NextVictim == IF csize = memsize THEN 0 ELSE csize

Victim(f)  == f = NextVictim
Replace(f) == Victim(f) /\ csize' = f + 1
=============================================================================
